---- MODULE Spec2Model ----
(***************************************************************************)
(* Model of the VIN generator: the checksum codec and code assembler       *)
(* (lib/vin-generator.ts), the two sequence stores (the JSON file store    *)
(* ChassisSequenceManager and the Redis store KVSequenceManager) and the   *)
(* batch services (VINService, AsyncVINService).                           *)
(*                                                                         *)
(* Strings are tuples of one-character strings, so that length, case       *)
(* folding, padding and the checksum are computed as the code computes     *)
(* them.  A counter map (a JS Map or a JSON object) is a function whose    *)
(* domain is the set of its keys.                                          *)
(***************************************************************************)
EXTENDS Integers, Sequences, FiniteSets, TLC

\* ------------------------------------------------------------------ bounds

\* Calls each direct caller of a store makes.
MaxCalls == 2

\* Operations of a sequence applied to both stores side by side.
MaxOps == 3

\* ------------------------------------------------------------- characters

Digits == <<"0", "1", "2", "3", "4", "5", "6", "7", "8", "9">>

UpperOf ==
     ("a" :> "A") @@ ("b" :> "B") @@ ("c" :> "C") @@ ("d" :> "D") @@ ("e" :> "E")
  @@ ("f" :> "F") @@ ("g" :> "G") @@ ("h" :> "H") @@ ("i" :> "I") @@ ("j" :> "J")
  @@ ("k" :> "K") @@ ("l" :> "L") @@ ("m" :> "M") @@ ("n" :> "N") @@ ("o" :> "O")
  @@ ("p" :> "P") @@ ("q" :> "Q") @@ ("r" :> "R") @@ ("s" :> "S") @@ ("t" :> "T")
  @@ ("u" :> "U") @@ ("v" :> "V") @@ ("w" :> "W") @@ ("x" :> "X") @@ ("y" :> "Y")
  @@ ("z" :> "Z")

\* Characters whose upper-case form is longer than one character (Unicode
\* SpecialCasing): the sharp s becomes "SS".
SpecialUpper == ("ß" :> <<"S", "S">>)

\* String.prototype.toUpperCase
RECURSIVE toUpperCase(_)
toUpperCase(s) ==
  IF \A i \in 1..Len(s) : s[i] \notin DOMAIN SpecialUpper
  THEN [i \in 1..Len(s) |-> IF s[i] \in DOMAIN UpperOf THEN UpperOf[s[i]] ELSE s[i]]
  ELSE (IF s[1] \in DOMAIN SpecialUpper THEN SpecialUpper[s[1]]
        ELSE toUpperCase(<<s[1]>>))
       \o toUpperCase(SubSeq(s, 2, Len(s)))

\* String(n) for a non-negative integer n
RECURSIVE NumToString(_)
NumToString(n) ==
  IF n < 10 THEN <<Digits[n + 1]>>
  ELSE NumToString(n \div 10) \o <<Digits[(n % 10) + 1]>>

\* String.prototype.padStart(width, "0")
RECURSIVE padStart(_, _)
padStart(s, width) ==
  IF Len(s) >= width THEN s ELSE padStart(<<"0">> \o s, width)

\* ---------------------------------------------------------- checksum codec

VIN_FORBIDDEN == {"I", "O", "Q", "i", "o", "q"}

VIN_WEIGHTS == <<8, 7, 6, 5, 4, 3, 2, 10, 0, 9, 8, 7, 6, 5, 4, 3, 2>>

VIN_CHAR_VALUES ==
     ("A" :> 1) @@ ("B" :> 2) @@ ("C" :> 3) @@ ("D" :> 4) @@ ("E" :> 5)
  @@ ("F" :> 6) @@ ("G" :> 7) @@ ("H" :> 8)
  @@ ("J" :> 1) @@ ("K" :> 2) @@ ("L" :> 3) @@ ("M" :> 4) @@ ("N" :> 5)
  @@ ("P" :> 7) @@ ("R" :> 9)
  @@ ("S" :> 2) @@ ("T" :> 3) @@ ("U" :> 4) @@ ("V" :> 5) @@ ("W" :> 6)
  @@ ("X" :> 7) @@ ("Y" :> 8) @@ ("Z" :> 9)
  @@ ("0" :> 0) @@ ("1" :> 1) @@ ("2" :> 2) @@ ("3" :> 3) @@ ("4" :> 4)
  @@ ("5" :> 5) @@ ("6" :> 6) @@ ("7" :> 7) @@ ("8" :> 8) @@ ("9" :> 9)

\* this.VIN_CHAR_VALUES[char] ?? 0
CharValue(c) == IF c \in DOMAIN VIN_CHAR_VALUES THEN VIN_CHAR_VALUES[c] ELSE 0

\* The loop of calculateVINChecksum over indexes i..17 (1-based; 9 is skipped).
RECURSIVE WeightedTotal(_, _)
WeightedTotal(upperVin, i) ==
  IF i > Len(upperVin) THEN 0
  ELSE (IF i = 9 THEN 0 ELSE CharValue(upperVin[i]) * VIN_WEIGHTS[i])
       + WeightedTotal(upperVin, i + 1)

\* String(NaN)
NaN == <<"N", "a", "N">>

\* ChassisValidator.calculateVINChecksum: ok = FALSE is the thrown length error,
\* value the string returned.  The loop runs over upperVin; where upperVin is
\* longer than VIN_WEIGHTS a product with undefined makes the total NaN.
calculateVINChecksum(vin) ==
  IF Len(vin) # 17 THEN [ok |-> FALSE, value |-> << >>]
  ELSE LET upperVin == toUpperCase(vin)
       IN  IF Len(upperVin) > Len(VIN_WEIGHTS) THEN [ok |-> TRUE, value |-> NaN]
           ELSE LET checksum == WeightedTotal(upperVin, 1) % 11
                IN  [ok |-> TRUE,
                     value |-> IF checksum = 10 THEN <<"X">>
                               ELSE <<Digits[checksum + 1]>>]

\* /^[A-Za-z0-9]+$/
Alphanumeric ==
  DOMAIN UpperOf \cup {UpperOf[c] : c \in DOMAIN UpperOf}
                 \cup {Digits[i] : i \in 1..10}

\* A variant of validateVIN that compares the check character as written,
\* `calculated === vin[8]`, without its upper-case form.
validateVINExactCase(vin) ==
  IF Len(vin) # 17
  THEN [isValid |-> FALSE, errors |-> {"length"}, checksumValid |-> "null"]
  ELSE LET e1 == IF \E i \in 1..17 : vin[i] \notin Alphanumeric
                 THEN {"nonalnum"} ELSE {}
           e2 == IF \E i \in 1..17 : vin[i] \in VIN_FORBIDDEN
                 THEN {"forbidden"} ELSE {}
           calculated == calculateVINChecksum(vin).value
           actual == <<vin[9]>>
           checked == (e1 \cup e2) = {}
           e3 == IF checked /\ calculated # actual THEN {"checksum"} ELSE {}
       IN  [isValid |-> (e1 \cup e2 \cup e3) = {},
            errors |-> e1 \cup e2 \cup e3,
            checksumValid |-> IF ~checked THEN "null"
                              ELSE IF calculated = actual THEN "true" ELSE "false"]

\* ChassisValidator.validateVIN with checkChecksum = true.  errors is the set
\* of the kinds of error pushed.
validateVIN(vin) ==
  IF Len(vin) # 17
  THEN [isValid |-> FALSE, errors |-> {"length"}, checksumValid |-> "null"]
  ELSE LET e1 == IF \E i \in 1..17 : vin[i] \notin Alphanumeric
                 THEN {"nonalnum"} ELSE {}
           e2 == IF \E i \in 1..17 : vin[i] \in VIN_FORBIDDEN
                 THEN {"forbidden"} ELSE {}
           calculated == calculateVINChecksum(vin).value
           actual == toUpperCase(<<vin[9]>>)
           checked == (e1 \cup e2) = {}
           e3 == IF checked /\ calculated # actual THEN {"checksum"} ELSE {}
       IN  [isValid |-> (e1 \cup e2 \cup e3) = {},
            errors |-> e1 \cup e2 \cup e3,
            checksumValid |-> IF ~checked THEN "null"
                              ELSE IF calculated = actual THEN "true" ELSE "false"]

\* ----------------------------------------------------------- code assembler

\* Last sequence number that fits the 6-digit serial field.
MaxSequence == 999999

YearCodeList ==
  <<"1", "2", "3", "4", "5", "6", "7", "8", "9",
    "A", "B", "C", "D", "E", "F", "G", "H", "J",
    "K", "L", "M", "N", "P", "R", "S", "T", "V",
    "W", "X", "Y">>

FirstYear == 2001

YEAR_CODES == [y \in FirstYear..(FirstYear + Len(YearCodeList) - 1) |->
                 YearCodeList[y - FirstYear + 1]]

NoVin == << >>

\* A variant of generate without the range check of the sequence.  Used to
\* measure what C20 depends on.
generateAnySequence(wmi, vds, year, plant, sequence) ==
  IF Len(wmi) # 3 THEN [ok |-> FALSE, vin |-> NoVin, err |-> "wmi"]
  ELSE IF Len(vds) # 5 THEN [ok |-> FALSE, vin |-> NoVin, err |-> "vds"]
  ELSE IF year \notin DOMAIN YEAR_CODES THEN [ok |-> FALSE, vin |-> NoVin, err |-> "year"]
  ELSE IF Len(plant) # 1 THEN [ok |-> FALSE, vin |-> NoVin, err |-> "plant"]
  ELSE LET vinTemp == toUpperCase(wmi) \o toUpperCase(vds) \o <<"X">>
                      \o <<YEAR_CODES[year]>> \o toUpperCase(plant)
                      \o padStart(NumToString(sequence), 6)
           checksum == calculateVINChecksum(vinTemp)
       IN  IF ~checksum.ok THEN [ok |-> FALSE, vin |-> NoVin, err |-> "length"]
           ELSE [ok |-> TRUE,
                 vin |-> [vinTemp EXCEPT ![9] = checksum.value[1]],
                 err |-> "none"]

\* VINGenerator.generate with validateOutput = true: ok = FALSE is a throw.
generate(wmi, vds, year, plant, sequence) ==
  IF Len(wmi) # 3 THEN [ok |-> FALSE, vin |-> NoVin, err |-> "wmi"]
  ELSE IF Len(vds) # 5 THEN [ok |-> FALSE, vin |-> NoVin, err |-> "vds"]
  ELSE IF year \notin DOMAIN YEAR_CODES THEN [ok |-> FALSE, vin |-> NoVin, err |-> "year"]
  ELSE IF Len(plant) # 1 THEN [ok |-> FALSE, vin |-> NoVin, err |-> "plant"]
  ELSE IF sequence < 1 \/ sequence > MaxSequence
       THEN [ok |-> FALSE, vin |-> NoVin, err |-> "sequence"]
  ELSE LET yearCode == <<YEAR_CODES[year]>>
           sequenceStr == padStart(NumToString(sequence), 6)
           vinTemp == toUpperCase(wmi) \o toUpperCase(vds) \o <<"X">>
                      \o toUpperCase(yearCode) \o toUpperCase(plant) \o sequenceStr
           checksum == calculateVINChecksum(vinTemp)
           vin == toUpperCase(wmi) \o toUpperCase(vds) \o checksum.value
                  \o toUpperCase(yearCode) \o toUpperCase(plant) \o sequenceStr
       IN  IF ~checksum.ok THEN [ok |-> FALSE, vin |-> NoVin, err |-> "length"]
           ELSE IF ~validateVIN(vin).isValid
                THEN [ok |-> FALSE, vin |-> NoVin, err |-> "invalid"]
                ELSE [ok |-> TRUE, vin |-> vin, err |-> "none"]

\* `${wmi}${vds}${yearCode}${plant}`: the counter key of a field combination.
PrefixOf(wmi, vds, year, plant) == wmi \o vds \o <<YEAR_CODES[year]>> \o plant

\* ------------------------------------------------------------- counter maps

EmptyMap == [k \in {} |-> 0]

\* map.get(k) ?? 0
Get(m, k) == IF k \in DOMAIN m THEN m[k] ELSE 0

\* map.set(k, v)
Put(m, k, v) == [x \in DOMAIN m \cup {k} |-> IF x = k THEN v ELSE m[x]]

\* ------------------------------------------------------ persistence format

\* Object.fromEntries(map) / new Map(Object.entries(obj)): a JSON object is the
\* set of its <<key, value>> members.
ObjectFromEntries(m) == {<<k, m[k]>> : k \in DOMAIN m}

MapOfEntries(obj) ==
  [k \in {e[1] : e \in obj} |-> (CHOOSE e \in obj : e[1] = k)[2]]

\* Number(text) of a decimal numeral
RECURSIVE StringToNum(_)
StringToNum(s) ==
  IF Len(s) = 0 THEN 0
  ELSE LET d == CHOOSE i \in 0..9 : Digits[i + 1] = s[Len(s)]
       IN  10 * StringToNum(SubSeq(s, 1, Len(s) - 1)) + d

\* A variant of JSON.stringify that keeps six significant digits of a number
\* (as String(n.toPrecision(6)) would).  Used to measure what C23 depends on.
JSONstringifySixDigits(obj) ==
  {<<e[1], NumToString(IF e[2] > 999999 THEN (e[2] \div 10) * 10 ELSE e[2])>> :
     e \in obj}

\* JSON.stringify / JSON.parse of a flat object of non-negative integers: each
\* value is written as its decimal numeral.
JSONstringify(obj) == {<<e[1], NumToString(e[2])>> : e \in obj}

JSONparse(text) == {<<e[1], StringToNum(e[2])>> : e \in text}

\* The counter file: absent, holding a JSON document, or unreadable (it cannot
\* be read, or its content, such as that of a truncated file, does not parse).
AbsentFile == [st |-> "absent", data |-> {}]

UnreadableFile == [st |-> "unreadable", data |-> {}]

FileOf(m) == [st |-> "ok", data |-> JSONstringify(ObjectFromEntries(m))]

\* What the file maps prefix p to (-1: nothing can be read from it).
Persisted(f, p) ==
  IF f.st = "ok" THEN Get(MapOfEntries(JSONparse(f.data)), p) ELSE -1

\* -------------------------------------------------------------- the stores

\* ChassisSequenceManager instances of one process, all on the default path:
\* the getGlobalManager() singleton and the manager a VINService constructs
\* for itself.
GlobalManager == "global"

Inst == {GlobalManager, "service"}

\* Direct callers of ChassisSequenceManager.getNextSequenceAsync.
AsyncCallers == {"a1", "a2"}

\* Callers of the Redis store, possibly in different serverless instances.
KVCallers == {"k1", "k2"}

\* Concurrent generateVINsAsync requests.
Batches == {"b1", "b2"}

Callers == Inst \cup AsyncCallers \cup KVCallers \cup Batches

SEQUENCE_PREFIX == <<"c", "h", "a", "s", "s", "i", "s", "_", "s", "e", "q", ":">>

\* `${SEQUENCE_PREFIX}${prefix}`
KVKey(prefix) == SEQUENCE_PREFIX \o prefix

\* Outcomes of a file write: done; refused before the file is touched; or the
\* file is opened (truncated) and the data never gets written.
WriteOutcomes == {"ok", "refused", "truncated"}

\* Outcomes of a request to Redis: answered; lost before it reached the
\* server; or applied by the server with the answer lost.
RedisOutcomes == {"ok", "unreachable", "noreply"}

VARIABLES
  file,        \* the counter file data/chassis_sequences.json
  sequences,   \* [Inst -> counter map]: each instance's this.sequences
  isLoaded,    \* [Inst -> BOOLEAN]: each instance's this.isLoaded
  acall,       \* [AsyncCallers -> frame of its getNextSequenceAsync call]
  redis,       \* the Redis keyspace: key -> integer
  kvConfigured,\* whether the REST URL and token are in the environment
  kcall,       \* [KVCallers -> frame of its call to the Redis store]
  batch,       \* [Batches -> frame of its generateVINsAsync call]
  returned,    \* [Callers -> values returned to the caller, in order]
  outcomes,    \* [Callers -> what the services handed back to it, in order]
  loadFailed,  \* [Inst -> a load of the instance swallowed an error]
  loadFloor,   \* [Inst -> highest values returned before its latest load]
  returnedMax, \* prefix -> highest value the file store returned so far
  codec,       \* the latest call of the codec or the assembler, with its result
  env,         \* process.env: the variables of the Redis REST credentials
  selected,    \* what the calls of the backend selector returned, in order
  stats,       \* the latest call of a store's statistics, with its result
  templates,   \* the directory xml-template: file name -> content
  upload       \* [Uploads -> frame of its POST request to the upload route]

vars == <<file, sequences, isLoaded, acall, redis, kvConfigured, kcall, batch,
          returned, outcomes, loadFailed, loadFloor, returnedMax, codec,
          env, selected, stats, templates, upload>>

\* The state of the backend selector, of the statistics and of the template
\* upload route.
apiVars == <<env, selected, stats, templates, upload>>

fileVars == <<file, sequences, isLoaded, loadFailed, loadFloor, returnedMax>>

kvVars == <<redis, kvConfigured>>

\* `if (nextSeq > 999999) console.warn(...)`: the call logs a warning.
Warns(nextSeq) == nextSeq > MaxSequence

\* One returned value, with what the file held and what had been returned
\* before the instance loaded, both taken when the call returned, and whether
\* the call logged the warning of the limit.
Ret(store, who, p, v, f, floor) ==
  [store |-> store, who |-> who, prefix |-> p, val |-> v,
   persisted |-> Persisted(f, p), floor |-> Get(floor, p), warned |-> Warns(v)]

\* No call of the codec or the assembler has been made.
NoCall == [op |-> "none", input |-> << >>, ok |-> TRUE, output |-> << >>]

IdleCall == [pc |-> "idle", inst |-> "global", prefix |-> << >>,
             rd |-> AbsentFile, nextSeq |-> 0, data |-> {}]

IdleKV == [pc |-> "idle", op |-> "incr", prefix |-> << >>, arg |-> << >>,
           reply |-> 0, errors |-> 0, mutated |-> FALSE]

\* What a read or a reset of a store handed back to its caller: the value, or
\* the error thrown.  mutated (the call changed a counter) and seen (the
\* values the caller had been returned before) are kept for the properties.
Answer(op, who, store, p, arg, kind, val, mutated) ==
  [kind |-> kind, op |-> op, who |-> who, store |-> store, prefix |-> p,
   arg |-> arg, val |-> val, mutated |-> mutated, seen |-> Len(returned[who])]

\* The values callers reset a counter to; << >> is a call without the value.
ResetValues == {<< >>, <<100>>, <<999999>>}

\* `value: number = 0`: the default of the parameter.
ValueOrDefault(arg) == IF arg = << >> THEN 0 ELSE arg[1]

\* ----------------------------------------- file store, synchronous methods

\* A store instance as a value: [sequences, isLoaded, failed].
MemOf(i) == [sequences |-> sequences[i], isLoaded |-> isLoaded[i],
             failed |-> loadFailed[i]]

\* ChassisSequenceManager.loadSync: an absent file leaves this.sequences as it
\* is, an unreadable one is caught and replaced by an empty map.
loadSync(m, f) ==
  IF m.isLoaded THEN m
  ELSE [sequences |-> CASE f.st = "ok" -> MapOfEntries(JSONparse(f.data))
                        [] f.st = "absent" -> m.sequences
                        [] OTHER -> EmptyMap,
        isLoaded |-> TRUE,
        failed |-> m.failed \/ f.st = "unreadable"]

\* ChassisSequenceManager.saveSync: the error of a failed write is logged and
\* swallowed.
saveSync(m, f, w) ==
  CASE w = "ok" -> FileOf(m.sequences)
    [] w = "refused" -> f
    [] OTHER -> UnreadableFile

\* A variant of getNextSequence that returns the counter as it was before the
\* increment.  Used to measure what C5 depends on.
getNextSequencePostfix(m, f, p, w) ==
  LET m1 == loadSync(m, f)
      current == Get(m1.sequences, p)
      m2 == [m1 EXCEPT !.sequences = Put(@, p, current + 1)]
  IN  [mem |-> m2, file |-> saveSync(m2, f, w), ret |-> current]

\* A variant of getNextSequence that advances the counter by two.  Used to
\* measure what C7 depends on.
getNextSequenceSkipping(m, f, p, w) ==
  LET m1 == loadSync(m, f)
      nextSeq == Get(m1.sequences, p) + 2
      m2 == [m1 EXCEPT !.sequences = Put(@, p, nextSeq)]
  IN  [mem |-> m2, file |-> saveSync(m2, f, w), ret |-> nextSeq]

\* A variant of getNextSequence with a hard limit: above 999999 it changes
\* nothing and returns no number.  Used to measure what C17 depends on.
getNextSequenceHardLimit(m, f, p, w) ==
  LET m1 == loadSync(m, f)
      nextSeq == Get(m1.sequences, p) + 1
      m2 == [m1 EXCEPT !.sequences = Put(@, p, nextSeq)]
  IN  IF nextSeq > MaxSequence THEN [mem |-> m1, file |-> f, ret |-> 0]
      ELSE [mem |-> m2, file |-> saveSync(m2, f, w), ret |-> nextSeq]

\* ChassisSequenceManager.getNextSequence: [mem, file, ret], with w the outcome
\* of its write.
getNextSequence(m, f, p, w) ==
  LET m1 == loadSync(m, f)
      current == Get(m1.sequences, p)
      nextSeq == current + 1
      m2 == [m1 EXCEPT !.sequences = Put(@, p, nextSeq)]
  IN  [mem |-> m2, file |-> saveSync(m2, f, w), ret |-> nextSeq]

\* A variant of getCurrentSequence that counts the read: it returns the
\* counter and advances it.  Used to measure what C14 depends on.
getCurrentSequenceCounting(m, f, p) ==
  LET m1 == loadSync(m, f)
  IN  [mem |-> [m1 EXCEPT !.sequences = Put(@, p, Get(m1.sequences, p) + 1)],
       ret |-> Get(m1.sequences, p)]

\* ChassisSequenceManager.getCurrentSequence
getCurrentSequence(m, f, p) ==
  LET m1 == loadSync(m, f) IN [mem |-> m1, ret |-> Get(m1.sequences, p)]

\* A variant of resetSequence that ignores the value and sets the counter to
\* 0.  Used to measure what C13 depends on.
resetSequenceToZero(m, f, p, arg, w) ==
  LET m1 == loadSync(m, f)
      m2 == [m1 EXCEPT !.sequences = Put(@, p, 0)]
  IN  [mem |-> m2, file |-> saveSync(m2, f, w)]

\* ChassisSequenceManager.resetSequence: [mem, file], with w the outcome of
\* its write.
resetSequence(m, f, p, arg, w) ==
  LET m1 == loadSync(m, f)
      m2 == [m1 EXCEPT !.sequences = Put(@, p, ValueOrDefault(arg))]
  IN  [mem |-> m2, file |-> saveSync(m2, f, w)]

\* Counter keys the model's callers use.
Prefixes ==
  {PrefixOf(<<"L", "Z", "S">>, <<"H", "C", "K", "Z", "S">>, 2028, <<"S">>),
   PrefixOf(<<"L", "F", "V">>, <<"H", "C", "K", "Z", "S">>, 2028, <<"S">>)}

\* The floor an instance takes when a call makes it load: what had been
\* returned before the load.
FloorAfter(i, m) ==
  IF ~isLoaded[i] /\ m.isLoaded THEN returnedMax ELSE loadFloor[i]

RaiseMax(rm, p, v) == IF v > Get(rm, p) THEN Put(rm, p, v) ELSE rm

\* A caller of instance i calls getNextSequence(p).
GetNextSequence(i, p, w) ==
  /\ Len(returned[i]) < MaxCalls
  /\ LET r == getNextSequence(MemOf(i), file, p, w)
         fl == FloorAfter(i, r.mem)
     IN  /\ sequences' = [sequences EXCEPT ![i] = r.mem.sequences]
         /\ isLoaded' = [isLoaded EXCEPT ![i] = TRUE]
         /\ loadFailed' = [loadFailed EXCEPT ![i] = r.mem.failed]
         /\ loadFloor' = [loadFloor EXCEPT ![i] = fl]
         /\ file' = r.file
         /\ returned' = [returned EXCEPT
                           ![i] = Append(@, Ret(i, i, p, r.ret, r.file, fl))]
         /\ returnedMax' = RaiseMax(returnedMax, p, r.ret)
  /\ UNCHANGED <<acall, redis, kvConfigured, codec, apiVars, kcall, batch, outcomes>>

\* The counters as a reader of instance i would see them, and as the file
\* holds them.
CounterView(m, f) ==
  [p \in DOMAIN loadSync(m, f).sequences |-> loadSync(m, f).sequences[p]]

\* A call on instance i that ended as acc = [mem, file] changed a counter.
Mutated(i, acc) ==
  \/ CounterView(acc.mem, acc.file) # CounterView(MemOf(i), file)
  \/ acc.file # file

\* A caller of instance i calls getCurrentSequence(p).
GetCurrentSequence(i, p) ==
  /\ Len(outcomes[i]) < MaxCalls
  /\ LET r == getCurrentSequence(MemOf(i), file, p)
     IN  /\ sequences' = [sequences EXCEPT ![i] = r.mem.sequences]
         /\ isLoaded' = [isLoaded EXCEPT ![i] = TRUE]
         /\ loadFailed' = [loadFailed EXCEPT ![i] = r.mem.failed]
         /\ loadFloor' = [loadFloor EXCEPT ![i] = FloorAfter(i, r.mem)]
         /\ outcomes' = [outcomes EXCEPT ![i] = Append(@,
              Answer("getCurrentSequence", i, i, p, << >>, "result", r.ret,
                     Mutated(i, [mem |-> r.mem, file |-> file])))]
  /\ UNCHANGED <<file, acall, redis, kvConfigured, codec, apiVars, kcall, batch,
                 returned, returnedMax>>

\* A caller of instance i calls resetSequence(p, value), or resetSequence(p).
ResetSequence(i, p, arg, w) ==
  /\ Len(outcomes[i]) < MaxCalls
  /\ LET r == resetSequence(MemOf(i), file, p, arg, w)
     IN  /\ sequences' = [sequences EXCEPT ![i] = r.mem.sequences]
         /\ isLoaded' = [isLoaded EXCEPT ![i] = TRUE]
         /\ loadFailed' = [loadFailed EXCEPT ![i] = r.mem.failed]
         /\ loadFloor' = [loadFloor EXCEPT ![i] = FloorAfter(i, r.mem)]
         /\ file' = r.file
         /\ outcomes' = [outcomes EXCEPT ![i] = Append(@,
              Answer("resetSequence", i, i, p, arg, "result",
                     ValueOrDefault(arg), Mutated(i, r)))]
  /\ UNCHANGED <<acall, redis, kvConfigured, codec, apiVars, kcall, batch, returned,
                 returnedMax>>

\* ---------------------------------------- file store, asynchronous methods
\* Each action below is the stretch of getNextSequenceAsync (and of the load()
\* and save() it awaits) that runs between two awaits; the file operations
\* themselves run outside the event loop.

Frame(c) == acall[c]

Goto(c, pc) == acall' = [acall EXCEPT ![c].pc = pc]

\* getNextSequenceAsync(p) is called on instance i: load() returns at once
\* when the instance is loaded, and awaits fs.mkdir otherwise.
CallNextSequenceAsync(c, i, p) ==
  /\ Frame(c).pc = "idle"
  /\ Len(returned[c]) < MaxCalls
  /\ acall' = [acall EXCEPT ![c] = [IdleCall EXCEPT
                 !.pc = IF isLoaded[i] THEN "loaded" ELSE "mkdir",
                 !.inst = i, !.prefix = p]]
  /\ UNCHANGED <<fileVars, kvVars, codec, apiVars, kcall, batch, returned, outcomes>>

\* load(): fs.mkdir settled, fs.readFile is issued.
LoadMkdirDone(c) ==
  /\ Frame(c).pc = "mkdir"
  /\ Goto(c, "readFile")
  /\ UNCHANGED <<fileVars, kvVars, codec, apiVars, kcall, batch, returned, outcomes>>

\* load(): fs.readFile reads the file.
LoadReadFile(c) ==
  /\ Frame(c).pc = "readFile"
  /\ acall' = [acall EXCEPT ![c].pc = "parse", ![c].rd = file]
  /\ UNCHANGED <<fileVars, kvVars, codec, apiVars, kcall, batch, returned, outcomes>>

\* load(): the read settles; the content replaces this.sequences, or an empty
\* map does when the file is absent (ENOENT) or the read or the parse failed.
load(rd) == IF rd.st = "ok" THEN MapOfEntries(JSONparse(rd.data)) ELSE EmptyMap

LoadSettle(c) ==
  /\ Frame(c).pc = "parse"
  /\ LET i == Frame(c).inst
     IN  /\ sequences' = [sequences EXCEPT ![i] = load(Frame(c).rd)]
         /\ isLoaded' = [isLoaded EXCEPT ![i] = TRUE]
         /\ loadFailed' = [loadFailed EXCEPT
                             ![i] = @ \/ Frame(c).rd.st = "unreadable"]
         /\ loadFloor' = [loadFloor EXCEPT ![i] = returnedMax]
  /\ Goto(c, "loaded")
  /\ UNCHANGED <<file, kvVars, codec, apiVars, kcall, batch, returned, outcomes,
                 returnedMax>>

\* getNextSequenceAsync after `await this.load()`: read, increment, set, and
\* enter save(), which awaits fs.mkdir.
IncrementAsync(c) ==
  /\ Frame(c).pc = "loaded"
  /\ LET i == Frame(c).inst
         current == Get(sequences[i], Frame(c).prefix)
         nextSeq == current + 1
     IN  /\ sequences' = [sequences EXCEPT ![i] = Put(@, Frame(c).prefix, nextSeq)]
         /\ acall' = [acall EXCEPT ![c].pc = "saveMkdir", ![c].nextSeq = nextSeq]
  /\ UNCHANGED <<file, isLoaded, loadFailed, loadFloor, returnedMax, kvVars,
                 codec, apiVars,
                 kcall, batch, returned, outcomes>>

\* save(): fs.mkdir settled; this.sequences is serialised as it is now and
\* fs.writeFile is issued.
SaveSerialize(c) ==
  /\ Frame(c).pc = "saveMkdir"
  /\ acall' = [acall EXCEPT
                 ![c].pc = "open",
                 ![c].data = JSONstringify(ObjectFromEntries(sequences[Frame(c).inst]))]
  /\ UNCHANGED <<fileVars, kvVars, codec, apiVars, kcall, batch, returned, outcomes>>

\* fs.writeFile opens the file for writing, which truncates it, unless the
\* open is refused.
WriteOpen(c, w) ==
  /\ Frame(c).pc = "open"
  /\ w \in {"ok", "refused"}
  /\ file' = IF w = "ok" THEN UnreadableFile ELSE file
  /\ Goto(c, IF w = "ok" THEN "write" ELSE "saved")
  /\ UNCHANGED <<sequences, isLoaded, loadFailed, loadFloor, returnedMax,
                 kvVars, codec, apiVars, kcall, batch, returned, outcomes>>

\* fs.writeFile writes the data, or fails and leaves the file truncated.
WriteData(c, w) ==
  /\ Frame(c).pc = "write"
  /\ w \in {"ok", "truncated"}
  /\ file' = IF w = "ok" THEN [st |-> "ok", data |-> Frame(c).data] ELSE file
  /\ Goto(c, "saved")
  /\ UNCHANGED <<sequences, isLoaded, loadFailed, loadFloor, returnedMax,
                 kvVars, codec, apiVars, kcall, batch, returned, outcomes>>

\* save() settled (its catch swallowed any error): nextSeq is returned.
ReturnAsync(c) ==
  /\ Frame(c).pc = "saved"
  /\ LET i == Frame(c).inst
         p == Frame(c).prefix
     IN  /\ returned' = [returned EXCEPT
               ![c] = Append(@, Ret(i, c, p, Frame(c).nextSeq, file, loadFloor[i]))]
         /\ returnedMax' = RaiseMax(returnedMax, p, Frame(c).nextSeq)
  /\ acall' = [acall EXCEPT ![c] = IdleCall]
  /\ UNCHANGED <<file, sequences, isLoaded, loadFailed, loadFloor, kvVars,
                 codec, apiVars,
                 kcall, batch, outcomes>>

\* ------------------------------------------------------------ Redis store

\* A variant of incr that only creates the key (SETNX-like): an existing
\* counter is left as it is.  Used to measure what C2 depends on.
incrIfAbsent(store, key) ==
  IF key \in DOMAIN store THEN store ELSE Put(store, key, 1)

\* A variant of incr that creates an absent key at 0 and adds one only to a
\* key that exists.  Used to measure what C22 depends on.
incrFromZero(store, key) ==
  IF key \in DOMAIN store THEN Put(store, key, store[key] + 1)
  ELSE Put(store, key, 0)

\* A variant of incr that adds two.  Used to measure what C16 depends on.
incrByTwo(store, key) == Put(store, key, Get(store, key) + 2)

\* redis.incr(key): INCR creates an absent key at 0 and adds one, atomically.
incr(store, key) == Put(store, key, Get(store, key) + 1)

Attempts(c) == Len(returned[c]) + kcall[c].errors

\* KVSequenceManager.getNextSequenceAsync up to its await: without a client it
\* throws; otherwise INCR is sent, and o says what becomes of the request.
KVGetNextSequenceAsync(c, p, o) ==
  /\ kcall[c].pc = "idle"
  /\ Attempts(c) < MaxCalls
  /\ IF ~kvConfigured
     THEN /\ kcall' = [kcall EXCEPT ![c].errors = @ + 1]
          /\ redis' = redis
     ELSE /\ redis' = IF o = "unreachable" THEN redis ELSE incr(redis, KVKey(p))
          /\ kcall' = [kcall EXCEPT
                         ![c].pc = IF o = "ok" THEN "await" ELSE "reject",
                         ![c].op = "incr",
                         ![c].prefix = p,
                         ![c].arg = << >>,
                         ![c].reply = Get(incr(redis, KVKey(p)), KVKey(p)),
                         ![c].mutated = redis' # redis]
  /\ UNCHANGED <<fileVars, acall, kvConfigured, codec, apiVars, batch, returned,
                 outcomes>>

\* KVSequenceManager.getCurrentSequenceAsync up to its await: without a client
\* it throws; otherwise GET is sent.  reply is `value ?? 0` of the answer.
KVGetCurrentSequenceAsync(c, p, o) ==
  /\ kcall[c].pc = "idle"
  /\ Len(outcomes[c]) < MaxCalls
  /\ IF ~kvConfigured
     THEN /\ outcomes' = [outcomes EXCEPT ![c] = Append(@,
               Answer("getCurrentSequenceAsync", c, "kv", p, << >>, "error", 0,
                      FALSE))]
          /\ kcall' = kcall
     ELSE /\ kcall' = [kcall EXCEPT
                         ![c].pc = IF o = "ok" THEN "await" ELSE "reject",
                         ![c].op = "get",
                         ![c].prefix = p,
                         ![c].arg = << >>,
                         ![c].reply = Get(redis, KVKey(p)),
                         ![c].mutated = FALSE]
          /\ outcomes' = outcomes
  /\ UNCHANGED <<fileVars, acall, kvVars, codec, apiVars, batch, returned>>

\* KVSequenceManager.resetSequenceAsync up to its await: without a client it
\* throws; otherwise SET is sent, and o says what becomes of the request.
KVResetSequenceAsync(c, p, arg, o) ==
  /\ kcall[c].pc = "idle"
  /\ Len(outcomes[c]) < MaxCalls
  /\ IF ~kvConfigured
     THEN /\ outcomes' = [outcomes EXCEPT ![c] = Append(@,
               Answer("resetSequenceAsync", c, "kv", p, arg, "error", 0, FALSE))]
          /\ kcall' = kcall
          /\ redis' = redis
     ELSE /\ redis' = IF o = "unreachable" THEN redis
                      ELSE Put(redis, KVKey(p), ValueOrDefault(arg))
          /\ kcall' = [kcall EXCEPT
                         ![c].pc = IF o = "ok" THEN "await" ELSE "reject",
                         ![c].op = "set",
                         ![c].prefix = p,
                         ![c].arg = arg,
                         ![c].reply = ValueOrDefault(arg),
                         ![c].mutated = redis' # redis]
          /\ outcomes' = outcomes
  /\ UNCHANGED <<fileVars, acall, kvConfigured, codec, apiVars, batch, returned>>

\* A variant of KVSettle that hands the caller a number whatever became of
\* the request.  Used to measure what C12 depends on.
KVSettleAnswering(c) ==
  /\ kcall[c].pc \in {"await", "reject"}
  /\ returned' = [returned EXCEPT
       ![c] = Append(@, [store |-> "kv", who |-> c, prefix |-> kcall[c].prefix,
                         val |-> kcall[c].reply,
                         persisted |-> Get(redis, KVKey(kcall[c].prefix)),
                         floor |-> 0, warned |-> Warns(kcall[c].reply)])]
  /\ kcall' = [kcall EXCEPT ![c].pc = "idle"]
  /\ UNCHANGED <<fileVars, acall, kvVars, codec, apiVars, batch, outcomes>>

\* The awaited request settles: its reply is returned, or its error is thrown.
KVSettle(c) ==
  /\ kcall[c].pc \in {"await", "reject"}
  /\ IF kcall[c].op = "incr"
     THEN /\ outcomes' = outcomes
          /\ IF kcall[c].pc = "await"
             THEN /\ returned' = [returned EXCEPT
                       ![c] = Append(@, [store |-> "kv", who |-> c,
                                         prefix |-> kcall[c].prefix,
                                         val |-> kcall[c].reply,
                                         persisted |-> Get(redis, KVKey(kcall[c].prefix)),
                                         floor |-> 0,
                                         warned |-> Warns(kcall[c].reply)])]
                  /\ kcall' = [kcall EXCEPT ![c].pc = "idle"]
             ELSE /\ returned' = returned
                  /\ kcall' = [kcall EXCEPT ![c].pc = "idle", ![c].errors = @ + 1]
     ELSE /\ returned' = returned
          /\ kcall' = [kcall EXCEPT ![c].pc = "idle"]
          /\ outcomes' = [outcomes EXCEPT ![c] = Append(@,
               Answer(IF kcall[c].op = "get" THEN "getCurrentSequenceAsync"
                      ELSE "resetSequenceAsync",
                      c, "kv", kcall[c].prefix, kcall[c].arg,
                      IF kcall[c].pc = "await" THEN "result" ELSE "error",
                      IF kcall[c].pc = "await" THEN kcall[c].reply ELSE 0,
                      kcall[c].mutated))]
  /\ UNCHANGED <<fileVars, acall, kvVars, codec, apiVars, batch>>

\* ------------------------------------------------------------ VINService

\* Field values and quantities the callers pass.
WmiInputs == {<<"L", "Z", "S">>, <<"l", "z", "s">>, <<"L", "Z">>}

VdsInputs == {<<"H", "C", "K", "Z", "S">>}

YearInputs == {2028, 2031}

PlantInputs == {<<"S">>}

QuantityInputs == {0, 1, 2, 10001}

\* Write outcomes of the units of one synchronous batch: the condition of the
\* disk does not change while the batch runs.
BatchWrites == {[n \in 1..2 |-> w] : w \in WriteOutcomes}


Requests ==
  [quantity : QuantityInputs, wmi : WmiInputs, vds : VdsInputs,
   year : YearInputs, plantCode : PlantInputs]

\* The requests of the asynchronous batches.
BatchRequests ==
  {r \in Requests : r.wmi = <<"L", "Z", "S">> /\ r.year = 2028 /\ r.quantity <= 2}

\* The counter keys of these requests.
BatchPrefixes ==
  {PrefixOf(r.wmi, r.vds, r.year, r.plantCode) : r \in BatchRequests}

\* The parameter checks at the head of generateVINs and generateVINsAsync.
RequestError(req) ==
  IF req.quantity < 1 \/ req.quantity > 10000 THEN "quantity"
  ELSE IF Len(req.wmi) # 3 THEN "wmi"
  ELSE IF Len(req.vds) # 5 THEN "vds"
  ELSE IF req.year \notin DOMAIN YEAR_CODES THEN "year"
  ELSE IF Len(req.plantCode) # 1 THEN "plant"
  ELSE "none"

\* ChassisFactory.createUniqueVIN on the store value m of instance i:
\* [ok, err, mem, file, vin, rets], rets being the value the store returned.
createUniqueVIN(i, fl, m, f, wmi, vds, year, plant, w) ==
  IF year \notin DOMAIN YEAR_CODES
  THEN [ok |-> FALSE, err |-> "year", mem |-> m, file |-> f, vin |-> NoVin,
        rets |-> << >>]
  ELSE LET prefix == PrefixOf(wmi, vds, year, plant)
           r == getNextSequence(m, f, prefix, w)
           g == generate(wmi, vds, year, plant, r.ret)
       IN  [ok |-> g.ok, err |-> g.err, mem |-> r.mem, file |-> r.file,
            vin |-> g.vin,
            rets |-> <<Ret(i, i, prefix, r.ret, r.file, fl)>>]

\* A variant of createUniqueVINBatch that takes the numbers of the whole
\* requested range from the store, also after a unit has failed.
RECURSIVE createUniqueVINBatchWholeRange(_, _, _, _, _, _)
createUniqueVINBatchWholeRange(i, fl, acc, req, n, ws) ==
  IF n > req.quantity THEN acc
  ELSE LET u == createUniqueVIN(i, fl, acc.mem, acc.file, req.wmi, req.vds,
                                req.year, req.plantCode, ws[n])
       IN  createUniqueVINBatchWholeRange(i, fl,
             [ok |-> acc.ok /\ u.ok,
              err |-> IF acc.ok THEN u.err ELSE acc.err,
              mem |-> u.mem, file |-> u.file,
              vins |-> IF acc.ok /\ u.ok THEN Append(acc.vins, u.vin) ELSE acc.vins,
              rets |-> acc.rets \o u.rets],
             req, n + 1, ws)

\* ChassisFactory.createUniqueVINBatch: units n..quantity of the loop, from
\* the accumulated acc = [ok, err, mem, file, vins, rets]; ws[n] is the outcome
\* of unit n's write.
RECURSIVE createUniqueVINBatch(_, _, _, _, _, _)
createUniqueVINBatch(i, fl, acc, req, n, ws) ==
  IF n > req.quantity \/ ~acc.ok THEN acc
  ELSE LET u == createUniqueVIN(i, fl, acc.mem, acc.file, req.wmi, req.vds,
                                req.year, req.plantCode, ws[n])
       IN  createUniqueVINBatch(i, fl,
             [ok |-> u.ok, err |-> u.err, mem |-> u.mem, file |-> u.file,
              vins |-> IF u.ok THEN Append(acc.vins, u.vin) ELSE acc.vins,
              rets |-> acc.rets \o u.rets],
             req, n + 1, ws)

StartAcc(i) == [ok |-> TRUE, err |-> "none", mem |-> MemOf(i), file |-> file,
                vins |-> << >>, rets |-> << >>]

\* What a call hands back: a result with its metadata, or the error thrown.
\* seqs (the numbers the call was allocated), mutated (the call changed a
\* counter), before and after (the prefix's counter in the call's store when
\* the call began and after its last allocation) are kept for the properties.
Result(op, who, req, vins, startSequence, endSequence, seqs, alone, before, after) ==
  [kind |-> "result", op |-> op, who |-> who, quantity |-> req.quantity, vins |-> vins,
   startSequence |-> startSequence, endSequence |-> endSequence,
   err |-> "none", seqs |-> seqs, mutated |-> TRUE, alone |-> alone,
   before |-> before, after |-> after, seen |-> [c \in Callers |-> 0]]

Thrown(op, who, req, err, seqs, mutated, before, after) ==
  [kind |-> "error", op |-> op, who |-> who, quantity |-> req.quantity, vins |-> << >>,
   startSequence |-> 0, endSequence |-> 0,
   err |-> err, seqs |-> seqs, mutated |-> mutated, alone |-> TRUE,
   before |-> before, after |-> after,
   seen |-> [c \in Callers |-> IF seqs = << >> THEN 0 ELSE Len(returned'[c])]]

Vals(rets) == [k \in 1..Len(rets) |-> rets[k].val]

\* The effect of a synchronous service call on instance i that ended as acc.
Commit(i, acc, fl) ==
  /\ sequences' = [sequences EXCEPT ![i] = acc.mem.sequences]
  /\ isLoaded' = [isLoaded EXCEPT ![i] = acc.mem.isLoaded]
  /\ loadFailed' = [loadFailed EXCEPT ![i] = acc.mem.failed]
  /\ loadFloor' = [loadFloor EXCEPT ![i] = IF acc.mem.isLoaded THEN fl ELSE @]
  /\ file' = acc.file
  /\ returned' = [returned EXCEPT ![i] = @ \o acc.rets]
  /\ returnedMax' =
       IF acc.rets = << >> THEN returnedMax
       ELSE RaiseMax(returnedMax, acc.rets[1].prefix, acc.rets[Len(acc.rets)].val)

\* VINService.generateVINs(req) of the service whose manager is instance i.
GenerateVINs(i, req, ws) ==
  /\ Len(outcomes[i]) < MaxCalls
  /\ LET e == RequestError(req)
         m0 == loadSync(MemOf(i), file)
         fl == FloorAfter(i, m0)
         prefix == PrefixOf(req.wmi, req.vds, req.year, req.plantCode)
     IN  \E acc \in {IF e = "none"
                     THEN createUniqueVINBatch(i, fl, StartAcc(i), req, 1, ws)
                     ELSE [StartAcc(i) EXCEPT !.ok = FALSE, !.err = e]} :
           LET currentSeq == getCurrentSequence(acc.mem, acc.file, prefix).ret
           IN  /\ Commit(i, acc, fl)
               /\ outcomes' = [outcomes EXCEPT ![i] = Append(@,
                    IF acc.ok
                    THEN Result("generateVINs", i, req, acc.vins,
                                currentSeq - req.quantity + 1, currentSeq,
                                Vals(acc.rets), TRUE,
                                Get(m0.sequences, prefix),
                                Get(acc.mem.sequences, prefix))
                    ELSE Thrown("generateVINs", i, req, acc.err, Vals(acc.rets),
                                Mutated(i, acc),
                                IF e = "none" THEN Get(m0.sequences, prefix) ELSE 0,
                                IF e = "none" THEN Get(acc.mem.sequences, prefix)
                                ELSE 0))]
  /\ UNCHANGED <<acall, kvVars, codec, apiVars, kcall, batch>>

\* VINService.generateSingleVIN(wmi, vds, year, plantCode)
GenerateSingleVIN(i, req, w) ==
  /\ Len(outcomes[i]) < MaxCalls
  /\ req.quantity = 1
  /\ LET m0 == loadSync(MemOf(i), file)
         fl == FloorAfter(i, m0)
         prefix == PrefixOf(req.wmi, req.vds, req.year, req.plantCode)
         valid == req.year \in DOMAIN YEAR_CODES
     IN  \E u \in {createUniqueVIN(i, fl, MemOf(i), file, req.wmi, req.vds,
                                   req.year, req.plantCode, w)} :
           /\ Commit(i, u, fl)
           /\ outcomes' = [outcomes EXCEPT ![i] = Append(@,
                IF u.ok
                THEN Result("generateSingleVIN", i, req, <<u.vin>>,
                            u.rets[1].val, u.rets[1].val, Vals(u.rets), TRUE,
                            Get(m0.sequences, prefix), Get(u.mem.sequences, prefix))
                ELSE Thrown("generateSingleVIN", i, req, u.err, Vals(u.rets),
                            Mutated(i, u),
                            IF valid THEN Get(m0.sequences, prefix) ELSE 0,
                            IF valid THEN Get(u.mem.sequences, prefix) ELSE 0))]
  /\ UNCHANGED <<acall, kvVars, codec, apiVars, kcall, batch>>

\* -------------------------------------------------------- AsyncVINService

IdleBatch ==
  [pc |-> "idle", req |-> [quantity |-> 0], prefix |-> << >>, i |-> 0,
   vins |-> << >>, startSequence |-> 0, endSequence |-> 0,
   reply |-> << >>, seqs |-> << >>, alone |-> TRUE, before |-> 0, after |-> 0,
   calls |-> 0, landed |-> 0]

\* The counter of prefix p in the store getSequenceManager() selected.
StoreCounter(p) ==
  IF kvConfigured THEN Get(redis, KVKey(p))
  ELSE Get(loadSync(MemOf(GlobalManager), file).sequences, p)

\* Batch b2 has been allocated a number of prefix p and will ask for another.
Between(b2, p) ==
  /\ batch[b2].pc = "await"
  /\ batch[b2].prefix = p
  /\ batch[b2].i + 1 < batch[b2].req.quantity

\* What can become of the request a call of the selected store makes.
StoreOutcomes == IF kvConfigured THEN RedisOutcomes ELSE WriteOutcomes

\* this.sequenceManager.getNextSequenceAsync(prefix) up to its await, called
\* from the frame fr of batch b.  On Redis INCR is sent; on the file store
\* FileSequenceManagerAsync runs getNextSequence on the global manager.  x is
\* what becomes of the INCR, or of the write.  reply is what the await
\* will deliver: the value returned, or nothing when the call fails.  calls
\* counts the calls the batch has made and landed those that changed the
\* counter.
AllocateAsync(b, fr, x) ==
  \E r \in {IF kvConfigured
             THEN [mem |-> MemOf(GlobalManager), file |-> file, ret |-> 0]
             ELSE getNextSequence(MemOf(GlobalManager), file, fr.prefix, x)} :
  LET p == fr.prefix
      o == x
      fl == FloorAfter(GlobalManager, r.mem)
      changed == ~kvConfigured \/ o # "unreachable"
  IN  /\ IF kvConfigured
         THEN /\ redis' = IF o = "unreachable" THEN redis ELSE incr(redis, KVKey(p))
              /\ UNCHANGED fileVars
         ELSE /\ sequences' = [sequences EXCEPT ![GlobalManager] = r.mem.sequences]
              /\ isLoaded' = [isLoaded EXCEPT ![GlobalManager] = TRUE]
              /\ loadFailed' = [loadFailed EXCEPT ![GlobalManager] = r.mem.failed]
              /\ loadFloor' = [loadFloor EXCEPT ![GlobalManager] = fl]
              /\ file' = r.file
              /\ returnedMax' = RaiseMax(returnedMax, p, r.ret)
              /\ redis' = redis
      /\ batch' = [b2 \in Batches |->
           IF b2 = b
           THEN [fr EXCEPT
                   !.pc = "await",
                   !.calls = @ + 1,
                   !.landed = IF changed THEN @ + 1 ELSE @,
                   !.after = IF kvConfigured THEN Get(redis', KVKey(p))
                             ELSE Get(r.mem.sequences, p),
                   !.reply =
                     IF kvConfigured
                     THEN IF o = "ok"
                          THEN <<[store |-> "kv", who |-> b, prefix |-> p,
                                  val |-> Get(incr(redis, KVKey(p)), KVKey(p)),
                                  persisted |-> Get(incr(redis, KVKey(p)), KVKey(p)),
                                  floor |-> 0,
                                  warned |-> Warns(Get(incr(redis, KVKey(p)),
                                                       KVKey(p)))]>>
                          ELSE << >>
                     ELSE <<Ret(GlobalManager, b, p, r.ret, r.file, fl)>>]
           ELSE IF changed /\ Between(b2, p)
                THEN [batch[b2] EXCEPT !.alone = FALSE]
                ELSE batch[b2]]

\* generateVINsAsync(req) up to its first await: the parameter checks, then
\* the first allocation.
GenerateVINsAsync(b, req, x) ==
  /\ batch[b].pc = "idle"
  /\ Len(outcomes[b]) = 0
  /\ IF RequestError(req) # "none"
     THEN /\ UNCHANGED <<fileVars, redis, batch, returned>>
          /\ outcomes' = [outcomes EXCEPT ![b] = Append(@,
               Thrown("generateVINsAsync", b, req, RequestError(req), << >>,
                      redis' # redis \/ file' # file \/ sequences' # sequences,
                      0, 0))]
     ELSE /\ AllocateAsync(b,
               [IdleBatch EXCEPT
                  !.req = req,
                  !.prefix = PrefixOf(req.wmi, req.vds, req.year, req.plantCode),
                  !.before = StoreCounter(PrefixOf(req.wmi, req.vds, req.year,
                                                   req.plantCode))],
               x)
          /\ UNCHANGED <<returned, outcomes>>
  /\ UNCHANGED <<acall, kvConfigured, codec, apiVars, kcall>>

\* One turn of the loop of generateVINsAsync after its await: the awaited call
\* delivers its number or throws; the unit's code is built; then the next
\* number is asked for, or the result is returned.
StepVINsAsync(b, x) ==
  /\ batch[b].pc = "await"
  /\ LET fr == batch[b]
         req == fr.req
         yearCode == <<YEAR_CODES[req.year]>>
         failed == fr.reply = << >>
         sequence == fr.reply[1].val
         sequenceStr == padStart(NumToString(sequence), 6)
         vinWithoutChecksum == req.wmi \o req.vds \o <<"X">> \o yearCode
                               \o req.plantCode \o sequenceStr
         seqs == IF failed THEN fr.seqs ELSE Append(fr.seqs, sequence)
     IN  \E checksum \in {IF failed THEN [ok |-> FALSE, value |-> << >>]
                           ELSE calculateVINChecksum(vinWithoutChecksum)} :
         \E next \in {IF failed THEN fr
                       ELSE [fr EXCEPT
                               !.i = @ + 1,
                               !.vins = Append(@, req.wmi \o req.vds
                                                  \o checksum.value \o yearCode
                                                  \o req.plantCode \o sequenceStr),
                               !.startSequence = IF fr.i = 0 THEN sequence ELSE @,
                               !.endSequence = sequence,
                               !.seqs = seqs]} :
         /\ returned' = [returned EXCEPT ![b] = @ \o fr.reply]
         /\ IF failed \/ ~checksum.ok
            THEN /\ batch' = [batch EXCEPT ![b] = [fr EXCEPT !.pc = "done",
                                                              !.seqs = seqs]]
                 /\ UNCHANGED <<fileVars, redis>>
                 /\ outcomes' = [outcomes EXCEPT ![b] = Append(@,
                      Thrown("generateVINsAsync", b, req,
                             IF failed THEN "unavailable" ELSE "length",
                             seqs, seqs # << >>, fr.before,
                             StoreCounter(fr.prefix)))]
            ELSE IF next.i < req.quantity
            THEN /\ AllocateAsync(b, next, x)
                 /\ outcomes' = outcomes
            ELSE /\ batch' = [batch EXCEPT ![b] = [next EXCEPT !.pc = "done"]]
                 /\ UNCHANGED <<fileVars, redis>>
                 /\ outcomes' = [outcomes EXCEPT ![b] = Append(@,
                      Result("generateVINsAsync", b, req, next.vins,
                             next.startSequence, next.endSequence, seqs,
                             fr.alone, fr.before, fr.after))]
  /\ UNCHANGED <<acall, kvConfigured, codec, apiVars, kcall>>

\* ------------------------------------------ calls of the codec and assembler

storeVars == <<fileVars, kvVars, acall, kcall, batch, returned, outcomes>>

\* A code the assembler builds, and the characters the callers put in its
\* place: letters of both cases, a digit, a forbidden letter, a character
\* that is no letter or digit, and one whose upper-case form is two
\* characters.
SampleCode ==
  generate(<<"L", "Z", "S">>, <<"H", "C", "K", "Z", "S">>, 2028, <<"S">>, 1).vin

SampleChars == {"A", "z", "9", "I", "-", "ß", "X"}

\* A code whose check character is the letter X, and the same code with
\* other characters at the check position, the lower-case x among them.
SampleCodeX ==
  generate(<<"L", "Z", "S">>, <<"H", "C", "K", "Z", "S">>, 2028, <<"S">>, 13).vin

CodeInputs ==
  {[SampleCode EXCEPT ![i] = c] : i \in 1..Len(SampleCode), c \in SampleChars}
  \cup {SubSeq(SampleCode, 1, 16), SampleCode \o <<"0">>, << >>}
  \cup {[SampleCodeX EXCEPT ![9] = c] : c \in SampleChars \cup {"x"}}

\* Arguments the callers of VINGenerator.generate pass.
AssemblerInputs ==
  [wmi : WmiInputs \cup {<<"L", "I", "S">>, <<"ß", "Z", "S">>},
   vds : VdsInputs \cup {<<"H", "C", "K", "Z">>},
   year : YearInputs \cup {FirstYear - 1, FirstYear},
   plant : PlantInputs \cup {<< >>, <<"S", "S">>},
   sequence : {0, 1, 42, MaxSequence, MaxSequence + 1}]

\* A caller calls ChassisValidator.calculateVINChecksum(vin).
CalculateVINChecksum(vin) ==
  /\ codec' = [op |-> "calculateVINChecksum", input |-> vin,
               ok |-> calculateVINChecksum(vin).ok,
               output |-> calculateVINChecksum(vin).value]
  /\ UNCHANGED <<storeVars, apiVars>>

\* A caller calls ChassisValidator.validateVIN(vin).
ValidateVIN(vin) ==
  /\ codec' = [op |-> "validateVIN", input |-> vin, ok |-> TRUE,
               output |-> validateVIN(vin)]
  /\ UNCHANGED <<storeVars, apiVars>>

\* A caller calls VINGenerator.generate(wmi, vds, year, plant, sequence).
Generate(in) ==
  /\ \E g \in {generate(in.wmi, in.vds, in.year, in.plant, in.sequence)} :
       codec' = [op |-> "generate", input |-> in, ok |-> g.ok, output |-> g.vin]
  /\ UNCHANGED <<storeVars, apiVars>>

\* ------------------------------------- the two stores behind one interface

\* ChassisSequenceManager.getAllSequences: Object.fromEntries(this.sequences)
\* after loadSync, as the map of its members.
getAllSequences(m, f) == MapOfEntries(ObjectFromEntries(loadSync(m, f).sequences))

\* A variant of getAllSequencesAsync that leaves out the counters that are 0
\* (a test `if (value)` in the place of `value !== null`).
getAllSequencesAsyncTruthy(store) ==
  LET keys == {k \in DOMAIN store : Len(k) >= Len(SEQUENCE_PREFIX)
                 /\ SubSeq(k, 1, Len(SEQUENCE_PREFIX)) = SEQUENCE_PREFIX
                 /\ store[k] # 0}
  IN  [q \in {SubSeq(k, Len(SEQUENCE_PREFIX) + 1, Len(k)) : k \in keys} |->
         store[KVKey(q)]]

\* KVSequenceManager.getAllSequencesAsync, no other caller running between its
\* requests: KEYS chassis_seq:*, then for each key the prefix
\* key.replace(SEQUENCE_PREFIX, "") with the value GET returns.
getAllSequencesAsync(store) ==
  LET keys == {k \in DOMAIN store : Len(k) >= Len(SEQUENCE_PREFIX)
                 /\ SubSeq(k, 1, Len(SEQUENCE_PREFIX)) = SEQUENCE_PREFIX}
  IN  [q \in {SubSeq(k, Len(SEQUENCE_PREFIX) + 1, Len(k)) : k \in keys} |->
         store[KVKey(q)]]

\* ChassisSequenceManager.resetSequenceAsync of a single caller: load(), which
\* takes an empty map for a file that is absent or unreadable; set; save().
resetSequenceAsync(m, f, p, arg, w) ==
  LET m1 == IF m.isLoaded THEN m
            ELSE [sequences |-> load(f), isLoaded |-> TRUE,
                  failed |-> m.failed \/ f.st = "unreadable"]
      m2 == [m1 EXCEPT !.sequences = Put(@, p, ValueOrDefault(arg))]
  IN  [mem |-> m2, file |-> saveSync(m2, f, w)]

\* The caller of the Redis store that is handed the same operations as the
\* caller of the file store.
KVTwin == "k1"

\* The file store ends a call as r = [mem, file], and both callers are handed
\* what their stores returned (0 for a call that returns nothing).
Both(op, p, arg, r, fileVal, kvVal) ==
  /\ Len(outcomes[GlobalManager]) < MaxOps
  /\ sequences' = [sequences EXCEPT ![GlobalManager] = r.mem.sequences]
  /\ isLoaded' = [isLoaded EXCEPT ![GlobalManager] = TRUE]
  /\ loadFailed' = [loadFailed EXCEPT ![GlobalManager] = r.mem.failed]
  /\ file' = r.file
  /\ outcomes' = [outcomes EXCEPT
       ![GlobalManager] = Append(@,
          Answer(op, GlobalManager, GlobalManager, p, arg, "result", fileVal,
                 Mutated(GlobalManager, r))),
       ![KVTwin] = Append(@,
          Answer(op, KVTwin, "kv", p, arg, "result", kvVal, redis' # redis))]
  /\ UNCHANGED <<loadFloor, returnedMax, acall, kvConfigured, kcall, batch,
                 returned, codec, apiVars>>

\* getNextSequenceAsync(p) on the FileSequenceManagerAsync, which runs
\* getNextSequence on the global manager, and on the KVSequenceManager, whose
\* INCR is answered.  w is the outcome of the file store's write.
BothGetNextSequenceAsync(p, w) ==
  \E r \in {getNextSequence(MemOf(GlobalManager), file, p, w)} :
    /\ redis' = incr(redis, KVKey(p))
    /\ Both("getNextSequenceAsync", p, << >>, r, r.ret, Get(redis', KVKey(p)))

\* getCurrentSequenceAsync(p) on both: getCurrentSequence on the global
\* manager, GET with `value ?? 0` on Redis.
BothGetCurrentSequenceAsync(p) ==
  \E r \in {getCurrentSequence(MemOf(GlobalManager), file, p)} :
    /\ redis' = redis
    /\ Both("getCurrentSequenceAsync", p, << >>, [mem |-> r.mem, file |-> file],
            r.ret, Get(redis, KVKey(p)))

\* resetSequenceAsync(p, value), or resetSequenceAsync(p), on both: the global
\* manager's, and SET on Redis.
BothResetSequenceAsync(p, arg, w) ==
  \E r \in {resetSequenceAsync(MemOf(GlobalManager), file, p, arg, w)} :
    /\ redis' = Put(redis, KVKey(p), ValueOrDefault(arg))
    /\ Both("resetSequenceAsync", p, arg, r, 0, 0)

\* -------------------------------------------------------- backend selector

\* The variables of process.env that hold the credentials of the Redis REST
\* API.
EnvNames ==
  {"UPSTASH_REDIS_REST_URL", "KV_REST_API_URL",
   "UPSTASH_REDIS_REST_TOKEN", "KV_REST_API_TOKEN"}

\* What process.env holds for a variable: << >> when the variable is not set
\* (undefined), <<s>> when it is set to the string s, empty or not.
EnvValues == {<< >>, <<"">>, <<"value">>}

Envs == [EnvNames -> EnvValues]

\* The values JavaScript takes for false: undefined and the empty string.
Falsy(v) == v = << >> \/ v = <<"">>

\* a || b
Or(a, b) == IF Falsy(a) THEN b ELSE a

\* a && b
And(a, b) == IF Falsy(a) THEN a ELSE b

\* isKVConfigured(), read from the environment e as it is at the call.
isKVConfigured(e) ==
  LET url == Or(e["UPSTASH_REDIS_REST_URL"], e["KV_REST_API_URL"])
      token == Or(e["UPSTASH_REDIS_REST_TOKEN"], e["KV_REST_API_TOKEN"])
  IN  ~Falsy(And(url, token))

\* getSequenceManager(): the kind of the manager it returns, the
\* KVSequenceManager singleton or a new FileSequenceManagerAsync.
getSequenceManager(e) == IF isKVConfigured(e) THEN "kv" ELSE "file"

\* getSequenceManagerType()
getSequenceManagerType(e) == IF isKVConfigured(e) THEN "kv" ELSE "file"

\* One call of the selector: the function called, the kind it returned, and
\* whether a REST URL and a REST token were set to a value when it was called.
Selection(fn, kind) ==
  [fn |-> fn, kind |-> kind,
   url |-> \E n \in {"UPSTASH_REDIS_REST_URL", "KV_REST_API_URL"} :
             env[n] \notin {<< >>, <<"">>},
   token |-> \E n \in {"UPSTASH_REDIS_REST_TOKEN", "KV_REST_API_TOKEN"} :
               env[n] \notin {<< >>, <<"">>}]

\* The environment of a deployment with the Upstash credentials, or without
\* any.
EnvOf(configured) ==
  [n \in EnvNames |->
     IF configured /\ n \in {"UPSTASH_REDIS_REST_URL", "UPSTASH_REDIS_REST_TOKEN"}
     THEN <<"value">> ELSE << >>]

selectorFrame ==
  <<storeVars, codec, stats, templates, upload>>

\* A caller calls getSequenceManager().
GetSequenceManager ==
  /\ Len(selected) < MaxCalls
  /\ selected' = Append(selected,
                        Selection("getSequenceManager", getSequenceManager(env)))
  /\ UNCHANGED <<selectorFrame, env>>

\* A caller calls getSequenceManagerType().
GetSequenceManagerType ==
  /\ Len(selected) < MaxCalls
  /\ selected' = Append(selected,
                        Selection("getSequenceManagerType",
                                  getSequenceManagerType(env)))
  /\ UNCHANGED <<selectorFrame, env>>

\* Code of the process assigns process.env[name] = v, or deletes the variable.
SetEnv(name, v) ==
  /\ env[name] # v
  /\ env' = [env EXCEPT ![name] = v]
  /\ kvConfigured' = isKVConfigured(env')
  /\ UNCHANGED <<fileVars, redis, acall, kcall, batch, returned, outcomes,
                 codec, selected, stats, templates, upload>>

\* ------------------------------------------------------------- statistics

ZeroStats ==
  [totalPrefixes |-> 0, totalVinsGenerated |-> 0, maxSequence |-> 0,
   averageSequence |-> 0]

\* Array.from(map.values()) / Object.values(obj): the values in the order of
\* the keys (here: some fixed order).
RECURSIVE Values(_)
Values(m) ==
  IF DOMAIN m = {} THEN << >>
  ELSE LET k == CHOOSE k \in DOMAIN m : TRUE
       IN  <<m[k]>> \o Values([x \in DOMAIN m \ {k} |-> m[x]])

\* values.reduce((sum, val) => sum + val, 0)
RECURSIVE ReduceSum(_, _)
ReduceSum(values, sum) ==
  IF values = << >> THEN sum ELSE ReduceSum(Tail(values), sum + Head(values))

\* Math.max(...values) of a non-empty array
RECURSIVE MathMax(_)
MathMax(values) ==
  IF Len(values) = 1 THEN Head(values)
  ELSE LET rest == MathMax(Tail(values))
       IN  IF Head(values) > rest THEN Head(values) ELSE rest

\* The aggregate both stores compute from the values of their counters.
\* averageSequence, Math.round(avg * 100) / 100, is held in hundredths.
Statistics(values) ==
  IF Len(values) = 0 THEN ZeroStats
  ELSE LET total == ReduceSum(values, 0)
       IN  [totalPrefixes |-> Len(values),
            totalVinsGenerated |-> total,
            maxSequence |-> MathMax(values),
            averageSequence |-> (2 * 100 * total + Len(values)) \div (2 * Len(values))]

\* ChassisSequenceManager.getStatistics: [mem, ret]
getStatistics(m, f) ==
  LET m1 == loadSync(m, f)
  IN  [mem |-> m1, ret |-> Statistics(Values(m1.sequences))]

\* KVSequenceManager.getStatisticsAsync, its requests answered and no other
\* caller running between them.
getStatisticsAsync(store) == Statistics(Values(getAllSequencesAsync(store)))

\* No call of the statistics has been made.
NoStats ==
  [op |-> "none", who |-> "none", kind |-> "none", value |-> ZeroStats,
   counters |-> EmptyMap, mutated |-> FALSE]

\* A caller of instance i calls getStatistics().  counters is what the
\* instance's counters were when it was called.
GetStatistics(i) ==
  /\ \E r \in {getStatistics(MemOf(i), file)} :
       /\ sequences' = [sequences EXCEPT ![i] = r.mem.sequences]
       /\ isLoaded' = [isLoaded EXCEPT ![i] = TRUE]
       /\ loadFailed' = [loadFailed EXCEPT ![i] = r.mem.failed]
       /\ loadFloor' = [loadFloor EXCEPT ![i] = FloorAfter(i, r.mem)]
       /\ stats' = [op |-> "getStatistics", who |-> i, kind |-> "result",
                    value |-> r.ret,
                    counters |-> CounterView(MemOf(i), file),
                    mutated |-> Mutated(i, [mem |-> r.mem, file |-> file])]
  /\ UNCHANGED <<file, returnedMax, acall, kvVars, kcall, batch, returned,
                 outcomes, codec, env, selected, templates, upload>>

\* Caller c calls getStatisticsAsync() of the Redis store: without a client
\* getAllSequencesAsync throws; otherwise o says what becomes of its requests
\* (KEYS, then a GET for each key), which change nothing.
KVGetStatisticsAsync(c, o) ==
  /\ kcall[c].pc = "idle"
  /\ stats' = [op |-> "getStatisticsAsync", who |-> c,
               kind |-> IF kvConfigured /\ o = "ok" THEN "result" ELSE "error",
               value |-> IF kvConfigured /\ o = "ok" THEN getStatisticsAsync(redis)
                         ELSE ZeroStats,
               counters |-> [p \in {q \in Prefixes : KVKey(q) \in DOMAIN redis} |->
                               redis[KVKey(p)]],
               mutated |-> FALSE]
  /\ UNCHANGED <<fileVars, acall, kvVars, kcall, batch, returned, outcomes,
                 codec, env, selected, templates, upload>>

\* ------------------------------------------------------ template upload route

\* Concurrent POST requests to /api/templates/upload, served by a process
\* that is not in production (isProduction() is false): the templates are
\* files of the directory xml-template.
Uploads == {"u1", "u2"}

\* The directory without a template.
EmptyDir == [k \in {} |-> ""]

\* The sanitized names and the contents of the files the requests carry.
TemplateNames == {"CCMA_30P_25T.xml", "CCMA_60P_25T.xml"}

TemplateContents == {"<first/>", "<second/>"}

\* What the checks at the head of POST find, and the status they answer.
UploadChecks == {"ok", "nofile", "size", "filename", "content"}

CheckStatus(check) == IF check = "size" THEN 413 ELSE 400

\* Outcomes of fs.mkdir and fs.writeFile.
FsOutcomes == {"ok", "refused"}

IdleUpload == [pc |-> "idle", name |-> "", content |-> "", status |-> 0]

\* POST up to `await fs.access(targetPath)`: the file is taken from the form,
\* its size, its sanitized name and its content are checked.
UploadPOST(u, name, content, check) ==
  /\ upload[u].pc = "idle"
  /\ upload' = [upload EXCEPT ![u] =
       IF check = "ok"
       THEN [pc |-> "access", name |-> name, content |-> content, status |-> 0]
       ELSE [pc |-> "done", name |-> name, content |-> content,
             status |-> CheckStatus(check)]]
  /\ UNCHANGED <<storeVars, codec, env, selected, stats, templates>>

\* fs.access settles: the file exists and the request is answered 409, or it
\* does not and fs.mkdir is awaited.
UploadAccess(u) ==
  /\ upload[u].pc = "access"
  /\ upload' = [upload EXCEPT ![u] =
       IF upload[u].name \in DOMAIN templates
       THEN [@ EXCEPT !.pc = "done", !.status = 409]
       ELSE [@ EXCEPT !.pc = "mkdir"]]
  /\ UNCHANGED <<storeVars, codec, env, selected, stats, templates>>

\* fs.mkdir(templateDir, {recursive: true}) settles; fs.writeFile is awaited,
\* or the error is caught and answered 500.
UploadMkdir(u, x) ==
  /\ upload[u].pc = "mkdir"
  /\ upload' = [upload EXCEPT ![u] =
       IF x = "ok" THEN [@ EXCEPT !.pc = "write"]
       ELSE [@ EXCEPT !.pc = "done", !.status = 500]]
  /\ UNCHANGED <<storeVars, codec, env, selected, stats, templates>>

\* fs.writeFile(targetPath, content) settles: the file holds content and the
\* request is answered 201, or the error is caught and answered 500.
UploadWrite(u, x) ==
  /\ upload[u].pc = "write"
  /\ templates' =
       IF x = "ok"
       THEN [n \in DOMAIN templates \cup {upload[u].name} |->
               IF n = upload[u].name THEN upload[u].content ELSE templates[n]]
       ELSE templates
  /\ upload' = [upload EXCEPT ![u] =
       [@ EXCEPT !.pc = "done", !.status = IF x = "ok" THEN 201 ELSE 500]]
  /\ UNCHANGED <<storeVars, codec, env, selected, stats>>

\* ----------------------------------------------------------- specifications

\* Counter files a process can find when it starts.
InitialFiles ==
  {AbsentFile, UnreadableFile,
   FileOf((CHOOSE p \in Prefixes : p[2] = "Z") :> (MaxSequence - 1))}

InitCommon ==
  /\ sequences = [i \in Inst |-> EmptyMap]
  /\ isLoaded = [i \in Inst |-> FALSE]
  /\ acall = [c \in AsyncCallers |-> IdleCall]
  /\ redis = EmptyMap
  /\ kcall = [c \in KVCallers |-> IdleKV]
  /\ batch = [b \in Batches |-> IdleBatch]
  /\ returned = [c \in Callers |-> << >>]
  /\ outcomes = [c \in Callers |-> << >>]
  /\ loadFailed = [i \in Inst |-> FALSE]
  /\ loadFloor = [i \in Inst |-> EmptyMap]
  /\ returnedMax = EmptyMap
  /\ codec = NoCall
  /\ selected = << >>
  /\ stats = NoStats
  /\ templates = EmptyDir
  /\ upload = [u \in Uploads |-> IdleUpload]

\* The file store used through its synchronous methods by the callers of two
\* instances; the reads are those that make an instance load the file.
InitFile ==
  /\ InitCommon
  /\ file \in InitialFiles
  /\ kvConfigured = FALSE
  /\ env = EnvOf(kvConfigured)

NextFile ==
  \/ \E i \in Inst, p \in Prefixes, w \in WriteOutcomes : GetNextSequence(i, p, w)
  \/ \E i \in Inst, p \in Prefixes : ~isLoaded[i] /\ GetCurrentSequence(i, p)

SpecFile == InitFile /\ [][NextFile]_vars

\* The file store used through getNextSequenceAsync by concurrent callers of
\* the global instance.
NextAsync ==
  \/ \E c \in AsyncCallers, p \in Prefixes : CallNextSequenceAsync(c, GlobalManager, p)
  \/ \E c \in AsyncCallers : LoadMkdirDone(c)
  \/ \E c \in AsyncCallers : LoadReadFile(c)
  \/ \E c \in AsyncCallers : LoadSettle(c)
  \/ \E c \in AsyncCallers : IncrementAsync(c)
  \/ \E c \in AsyncCallers : SaveSerialize(c)
  \/ \E c \in AsyncCallers, w \in WriteOutcomes : WriteOpen(c, w)
  \/ \E c \in AsyncCallers, w \in WriteOutcomes : WriteData(c, w)
  \/ \E c \in AsyncCallers : ReturnAsync(c)

SpecAsync == InitFile /\ [][NextAsync]_vars

\* The Redis store used by concurrent callers.
InitKV ==
  /\ InitCommon
  /\ file = AbsentFile
  /\ kvConfigured \in BOOLEAN
  /\ env = EnvOf(kvConfigured)

NextKV ==
  \/ \E c \in KVCallers, p \in Prefixes, o \in RedisOutcomes :
       KVGetNextSequenceAsync(c, p, o)
  \/ \E c \in KVCallers : KVSettle(c)

SpecKV == InitKV /\ [][NextKV]_vars

\* Each store used by a single caller, one call after the other.
InitSeq ==
  /\ InitCommon
  /\ file \in InitialFiles
  /\ kvConfigured = TRUE
  /\ env = EnvOf(kvConfigured)

NextSeq ==
  \/ \E p \in Prefixes, w \in WriteOutcomes : GetNextSequence(GlobalManager, p, w)
  \/ \E p \in Prefixes : ~isLoaded[GlobalManager] /\ GetCurrentSequence(GlobalManager, p)
  \/ \E p \in Prefixes, o \in RedisOutcomes : KVGetNextSequenceAsync("k1", p, o)
  \/ KVSettle("k1")

SpecSeq == InitSeq /\ [][NextSeq]_vars

\* A VINService with its own manager, next to callers of the global manager,
\* on the shared counter file.
NextSvc ==
  \/ \E req \in Requests, ws \in BatchWrites : GenerateVINs("service", req, ws)
  \/ \E req \in Requests, w \in WriteOutcomes : GenerateSingleVIN("service", req, w)
  \/ \E p \in Prefixes, w \in WriteOutcomes : GetNextSequence(GlobalManager, p, w)

Spec == InitFile /\ [][NextSvc]_vars

\* Concurrent generateVINsAsync requests on the store the environment
\* selects, next to a VINService.
InitBatch ==
  /\ InitCommon
  /\ file \in InitialFiles \ {UnreadableFile}
  /\ kvConfigured \in BOOLEAN
  /\ env = EnvOf(kvConfigured)

NextBatch ==
  \/ \E b \in Batches, req \in BatchRequests, x \in StoreOutcomes :
       GenerateVINsAsync(b, req, x)
  \/ \E b \in Batches, x \in StoreOutcomes : StepVINsAsync(b, x)
  \/ \E req \in {r \in BatchRequests : r.quantity = 2} :
       GenerateVINs("service", req, [n \in 1..2 |-> "ok"])

SpecBatch == InitBatch /\ [][NextBatch]_vars

\* The store the environment selects used by a single caller, one call after
\* the other: allocations, reads and resets.
InitStore ==
  /\ InitCommon
  /\ file \in InitialFiles
  /\ kvConfigured \in BOOLEAN
  /\ env = EnvOf(kvConfigured)

NextFileStore ==
  \/ \E p \in Prefixes, w \in WriteOutcomes : GetNextSequence(GlobalManager, p, w)
  \/ \E p \in Prefixes : GetCurrentSequence(GlobalManager, p)
  \/ \E p \in Prefixes, arg \in ResetValues, w \in WriteOutcomes :
       ResetSequence(GlobalManager, p, arg, w)

NextKVStore ==
  \/ \E p \in Prefixes, o \in RedisOutcomes : KVGetNextSequenceAsync("k1", p, o)
  \/ \E p \in Prefixes, o \in RedisOutcomes : KVGetCurrentSequenceAsync("k1", p, o)
  \/ \E p \in Prefixes, arg \in ResetValues, o \in RedisOutcomes :
       KVResetSequenceAsync("k1", p, arg, o)
  \/ KVSettle("k1")

NextStore ==
  \/ ~kvConfigured /\ NextFileStore
  \/ kvConfigured /\ NextKVStore

SpecStore == InitStore /\ [][NextStore]_vars

\* The store the environment selects, with requests that fail: a caller of
\* the Redis store next to a generateVINsAsync request.
NextOutage ==
  \/ \E p \in BatchPrefixes, o \in RedisOutcomes : KVGetNextSequenceAsync("k1", p, o)
  \/ \E p \in BatchPrefixes, o \in RedisOutcomes :
       KVGetCurrentSequenceAsync("k1", p, o)
  \/ KVSettle("k1")
  \/ \E req \in {r \in BatchRequests : r.quantity = 2}, x \in StoreOutcomes :
       GenerateVINsAsync("b1", req, x)
  \/ \E x \in StoreOutcomes : StepVINsAsync("b1", x)

SpecOutage == InitKV /\ [][NextOutage]_vars

\* Requests whose fields are of the right lengths: upper and lower case, a
\* forbidden letter, and a character whose upper-case form is two characters.
CodeRequests ==
  [quantity : {1},
   wmi : {<<"L", "Z", "S">>, <<"l", "z", "s">>, <<"L", "I", "S">>, <<"ß", "Z", "S">>},
   vds : VdsInputs, year : {2028}, plantCode : PlantInputs]

\* The assembler and the two services that hand out codes.
NextCodes ==
  \/ \E req \in CodeRequests :
       Generate([wmi |-> req.wmi, vds |-> req.vds, year |-> req.year,
                 plant |-> req.plantCode, sequence |-> 1])
  \/ \E req \in CodeRequests :
       GenerateVINs("service", req, [n \in 1..2 |-> "ok"])
  \/ \E req \in CodeRequests, x \in StoreOutcomes : GenerateVINsAsync("b1", req, x)
  \/ \E x \in StoreOutcomes : StepVINsAsync("b1", x)

SpecCodes == InitKV /\ [][NextCodes]_vars

\* The codec and the assembler called on their own.
NextCodec ==
  \/ \E vin \in CodeInputs : CalculateVINChecksum(vin)
  \/ \E vin \in CodeInputs : ValidateVIN(vin)
  \/ \E in \in AssemblerInputs : Generate(in)

SpecCodec == InitFile /\ [][NextCodec]_vars

\* One instance of the file store, its counters allocated and reset, whatever
\* becomes of its writes.
NextPersist ==
  \/ \E p \in Prefixes, w \in WriteOutcomes : GetNextSequence(GlobalManager, p, w)
  \/ \E p \in Prefixes, arg \in ResetValues, w \in WriteOutcomes :
       ResetSequence(GlobalManager, p, arg, w)

SpecPersist == InitFile /\ [][NextPersist]_vars

\* The store the environment selects, its counters allocated and reset by a
\* single caller who asks for the statistics.
NextFileStats ==
  \/ \E p \in Prefixes, w \in WriteOutcomes : GetNextSequence(GlobalManager, p, w)
  \/ \E p \in Prefixes, arg \in ResetValues, w \in WriteOutcomes :
       ResetSequence(GlobalManager, p, arg, w)
  \/ GetStatistics(GlobalManager)

NextKVStats ==
  \/ \E p \in Prefixes, o \in RedisOutcomes : KVGetNextSequenceAsync("k1", p, o)
  \/ \E p \in Prefixes, arg \in ResetValues, o \in RedisOutcomes :
       KVResetSequenceAsync("k1", p, arg, o)
  \/ KVSettle("k1")
  \/ \E o \in RedisOutcomes : KVGetStatisticsAsync("k1", o)

NextStats ==
  \/ ~kvConfigured /\ NextFileStats
  \/ kvConfigured /\ NextKVStats

SpecStats == InitStore /\ [][NextStats]_vars

\* Two upload requests, their steps interleaved, on a directory that holds
\* no template at the start.
InitUpload ==
  /\ InitCommon
  /\ file = AbsentFile
  /\ kvConfigured = FALSE
  /\ env = EnvOf(kvConfigured)

NextUpload ==
  \/ \E u \in Uploads, name \in TemplateNames, content \in TemplateContents,
        check \in UploadChecks : UploadPOST(u, name, content, check)
  \/ \E u \in Uploads : UploadAccess(u)
  \/ \E u \in Uploads, x \in FsOutcomes : UploadMkdir(u, x)
  \/ \E u \in Uploads, x \in FsOutcomes : UploadWrite(u, x)

SpecUpload == InitUpload /\ [][NextUpload]_vars

\* Both stores, empty at the start, handed the same operations by one caller
\* each; the requests to Redis are answered.
InitBoth ==
  /\ InitCommon
  /\ file = AbsentFile
  /\ kvConfigured = TRUE
  /\ env = EnvOf(kvConfigured)

NextBoth ==
  \/ \E p \in Prefixes, w \in WriteOutcomes : BothGetNextSequenceAsync(p, w)
  \/ \E p \in Prefixes : BothGetCurrentSequenceAsync(p)
  \/ \E p \in Prefixes, arg \in ResetValues, w \in WriteOutcomes :
       BothResetSequenceAsync(p, arg, w)

SpecBoth == InitBoth /\ [][NextBoth]_vars

\* The backend selector called in a process whose environment code of the
\* process can change.
InitSelect ==
  /\ InitCommon
  /\ file = AbsentFile
  /\ env \in Envs
  /\ kvConfigured = isKVConfigured(env)

NextSelect ==
  \/ GetSequenceManager
  \/ GetSequenceManagerType
  \/ \E name \in EnvNames, v \in EnvValues : SetEnv(name, v)

SpecSelect == InitSelect /\ [][NextSelect]_vars

\* ------------------------------------------------------------- properties

\* The values returned to caller c for prefix p, in the order of their return.
ValuesFor(c, p) ==
  LET at == {k \in 1..Len(returned[c]) : returned[c][k].prefix = p}
      RECURSIVE Take(_)
      Take(k) == IF k > Len(returned[c]) THEN << >>
                 ELSE IF k \in at THEN <<returned[c][k].val>> \o Take(k + 1)
                 ELSE Take(k + 1)
  IN  Take(1)

\* Every caller of the Redis store completed MaxCalls calls, all for prefix p.
AllCompleted(p) ==
  /\ kvConfigured
  /\ \A c \in KVCallers :
       /\ Len(returned[c]) = MaxCalls
       /\ \A k \in 1..MaxCalls : returned[c][k].prefix = p

\* C2: on the Redis store, when each of the M concurrent callers has completed
\* K calls of getNextSequenceAsync for one prefix whose counter was absent, the
\* M*K values returned are exactly 1..M*K, none returned twice.
C2_ValuesAreOneToMK ==
  \A p \in Prefixes :
    AllCompleted(p) =>
      /\ {returned[c][k].val : c \in KVCallers, k \in 1..MaxCalls}
           = 1..(Cardinality(KVCallers) * MaxCalls)
      /\ \A c1, c2 \in KVCallers, k1, k2 \in 1..MaxCalls :
           <<c1, k1>> # <<c2, k2>> => returned[c1][k1].val # returned[c2][k2].val

\* All callers completed their calls for one prefix, the calls of one caller
\* having been separated by a call of another.
C2_CompletedInterleaved ==
  \E p \in Prefixes :
    /\ AllCompleted(p)
    /\ \E c \in KVCallers : returned[c][2].val > returned[c][1].val + 1

\* C3: on the file store, overlapping getNextSequenceAsync calls on one
\* instance for one prefix behave as if run one after the other: no two of
\* them return the same value.
C3_OverlappingCallsNeverReturnSameValue ==
  \A c1, c2 \in AsyncCallers :
    \A k1 \in 1..Len(returned[c1]), k2 \in 1..Len(returned[c2]) :
      (/\ <<c1, k1>> # <<c2, k2>>
       /\ returned[c1][k1].store = returned[c2][k2].store
       /\ returned[c1][k1].prefix = returned[c2][k2].prefix)
      => returned[c1][k1].val # returned[c2][k2].val

\* C4: on the file store, when getNextSequence returns v for a prefix the file
\* maps the prefix to v whatever became of the write, and an instance that
\* loads the file later returns only values above those returned before.
C4_ReturnedValueIsPersisted ==
  \A i \in Inst : \A k \in 1..Len(returned[i]) :
    /\ returned[i][k].persisted = returned[i][k].val
    /\ returned[i][k].val > returned[i][k].floor

\* Prefixes that have a counter in no file a process starts with.
FreshPrefixes == {p \in Prefixes : \A f \in InitialFiles : Persisted(f, p) <= 0}

\* s is 1, 2, ..., Len(s).
CountsFromOne(s) == \A k \in 1..Len(s) : s[k] = k

\* C5: for a prefix with no counter yet, the sequential calls of one store
\* instance return 1, 2, ..., N in that order: the synchronous file store
\* whatever becomes of its writes, the Redis store while none of its calls
\* fails.
C5_SequentialCallsCountFromOne ==
  \A p \in FreshPrefixes :
    /\ CountsFromOne(ValuesFor(GlobalManager, p))
    /\ \A c \in KVCallers :
         (kcall[c].errors = 0 /\ \A k \in 1..Len(returned[c]) : returned[c][k].prefix = p)
         => CountsFromOne(ValuesFor(c, p))

\* Both stores have answered MaxCalls sequential calls for a prefix without a
\* counter.
C5_BothStoresCounted ==
  \E p \in FreshPrefixes :
    /\ Len(ValuesFor(GlobalManager, p)) = MaxCalls
    /\ \E c \in KVCallers : kcall[c].errors = 0 /\ Len(ValuesFor(c, p)) = MaxCalls

C9_FailedLoadReturnsNothing ==
  \A i \in Inst : loadFailed[i] => returned[i] = << >>

\* What caller c was handed back by its n-th service call.
Outcome(c, n) == outcomes[c][n]

Calls == {cn \in Callers \X (1..MaxCalls) : cn[2] <= Len(outcomes[cn[1]])}

BatchOps == {"generateVINs", "generateVINsAsync"}

\* C1: over any sequence of successful generateVINs, generateSingleVIN and
\* generateVINsAsync calls no 17-character code is returned twice, in one batch
\* or in different calls.
C1_NoCodeReturnedTwice ==
  \A a, b \in Calls :
    \A i \in 1..Len(Outcome(a[1], a[2]).vins), j \in 1..Len(Outcome(b[1], b[2]).vins) :
      <<a, i>> # <<b, j>>
      => Outcome(a[1], a[2]).vins[i] # Outcome(b[1], b[2]).vins[j]

\* The sequence number a code embeds: its last six characters.
SeqOf(vin) == StringToNum(SubSeq(vin, 12, 17))

\* The codes of result o embed startSequence, startSequence + 1, ... and the
\* range has as many numbers as the batch has units.
Consecutive(o) ==
  /\ o.endSequence - o.startSequence + 1 = o.quantity
  /\ \A i \in 1..Len(o.vins) : SeqOf(o.vins[i]) = o.startSequence + i - 1

\* C7 as stated: every result of generateVINs and generateVINsAsync has
\* endSequence - startSequence + 1 = quantity, and its i-th code embeds
\* startSequence + i - 1.
C7_EveryBatchIsConsecutive ==
  \A a \in Calls :
    (Outcome(a[1], a[2]).kind = "result" /\ Outcome(a[1], a[2]).op \in BatchOps)
    => Consecutive(Outcome(a[1], a[2]))

\* C7 as the code has it: a result holds quantity codes, the i-th embedding
\* the i-th number the call was allocated, and these numbers increase.  The
\* result of generateVINs is consecutive.  generateVINsAsync reports the first
\* and the last number it was allocated, and its result is consecutive when no
\* other request changed the prefix's counter between its first and its last
\* allocation.
C7_BatchFollowsItsAllocations ==
  \A a \in Calls :
    LET o == Outcome(a[1], a[2])
    IN  (o.kind = "result" /\ o.op \in BatchOps) =>
          /\ Len(o.vins) = o.quantity
          /\ Len(o.seqs) = o.quantity
          /\ \A i \in 1..o.quantity : SeqOf(o.vins[i]) = o.seqs[i]
          /\ \A i, j \in 1..o.quantity : i < j => o.seqs[i] < o.seqs[j]
          /\ o.op = "generateVINsAsync" =>
               /\ o.startSequence = o.seqs[1]
               /\ o.endSequence = o.seqs[o.quantity]
          /\ (o.op = "generateVINs" \/ o.alone) => Consecutive(o)

\* A generateVINsAsync result whose numbers another request's allocation
\* separated, next to a generateVINs result of more than one unit.
C7_SeparatedAndUndisturbedBatches ==
  /\ \E a \in Calls :
       LET o == Outcome(a[1], a[2])
       IN  /\ o.kind = "result" /\ o.op = "generateVINsAsync"
           /\ ~o.alone
           /\ o.endSequence - o.startSequence + 1 > o.quantity
  /\ \E a \in Calls :
       LET o == Outcome(a[1], a[2])
       IN  o.kind = "result" /\ o.op = "generateVINs" /\ o.quantity > 1

\* The reasons for which a request is rejected as invalid.
ValidationErrors == {"quantity", "wmi", "vds", "plant", "year", "sequence"}

\* C8: a request rejected for a validation reason is rejected before any
\* counter is changed: after the call every counter is what it was before.
C8_RejectionChangesNoCounter ==
  \A a \in Calls :
    (Outcome(a[1], a[2]).kind = "error" /\ Outcome(a[1], a[2]).err \in ValidationErrors)
    => ~Outcome(a[1], a[2]).mutated

\* The units a failed batch had issued: every number it was allocated when an
\* allocation failed, all but the last when the last one's assembly failed.
Issued(o) == IF o.err = "unavailable" THEN Len(o.seqs) ELSE Len(o.seqs) - 1

\* C10: when a batch fails after k of its units were issued, the prefix's
\* counter is k higher than before the batch, and no later allocation for the
\* prefix returns one of the k numbers.
C10_FailedBatchKeepsItsNumbers ==
  \A a \in Calls :
    LET o == Outcome(a[1], a[2])
        k == Issued(o)
        p == returned[o.who][o.seen[o.who]].prefix
    IN  (o.kind = "error" /\ o.op \in BatchOps /\ o.seqs # << >>) =>
          /\ o.after = o.before + k
          /\ \A c \in Callers : \A m \in (o.seen[c] + 1)..Len(returned[c]) :
               returned[c][m].prefix = p
               => returned[c][m].val \notin {o.seqs[j] : j \in 1..k}

\* The value of a character in the reference: its upper-case form looked up
\* in the table, 0 when the table does not have it.
RefValue(c) ==
  LET u == IF c \in DOMAIN UpperOf THEN UpperOf[c] ELSE c
  IN  IF u \in DOMAIN VIN_CHAR_VALUES THEN VIN_CHAR_VALUES[u] ELSE 0

\* The sum of the products of the first n characters with their weights.
RECURSIVE RefSum(_, _)
RefSum(vin, n) ==
  IF n = 0 THEN 0 ELSE RefSum(vin, n - 1) + RefValue(vin[n]) * VIN_WEIGHTS[n]

RefChecksum(vin) ==
  IF RefSum(vin, 17) % 11 = 10 THEN <<"X">>
  ELSE <<Digits[(RefSum(vin, 17) % 11) + 1]>>

CheckCharacters == {<<Digits[i]>> : i \in 1..10} \cup {<<"X">>}

\* C19: calculateVINChecksum of a 17-character string is the reference value:
\* the weighted sum mod 11 of the characters' table values (unrecognized
\* characters counting 0), "X" for 10; it is one of 0-9 and X, and does not
\* depend on the character at index 8.
C19_ChecksumIsTheReference ==
  (codec.op = "calculateVINChecksum" /\ Len(codec.input) = 17) =>
    /\ codec.ok
    /\ codec.output = RefChecksum(codec.input)
    /\ codec.output \in CheckCharacters
    /\ \A c \in SampleChars :
         calculateVINChecksum([codec.input EXCEPT ![9] = c]).value = codec.output

\* The arguments in of generate are malformed.
Malformed(in) ==
  \/ Len(in.wmi) # 3
  \/ Len(in.vds) # 5
  \/ Len(in.plant) # 1
  \/ in.year < FirstYear
  \/ in.year > FirstYear + 29
  \/ in.sequence < 1
  \/ in.sequence > MaxSequence

\* C20: calculateVINChecksum fails on an input whose length is not 17, and
\* generate fails when the manufacturer id is not 3 characters, the descriptor
\* not 5, the plant code not 1, the year outside 2001-2030 or the sequence
\* outside 1..999999; neither returns a code then.
C20_MalformedInputIsRejected ==
  /\ (codec.op = "calculateVINChecksum" /\ Len(codec.input) # 17)
     => (~codec.ok /\ codec.output = << >>)
  /\ (codec.op = "generate" /\ Malformed(codec.input))
     => (~codec.ok /\ codec.output = NoVin)

\* generate was called with the year 2031 and otherwise well-formed arguments,
\* and failed.
C20_UnsupportedYearRejected ==
  /\ codec.op = "generate"
  /\ ~codec.ok
  /\ codec.input.year = FirstYear + 30
  /\ Len(codec.input.wmi) = 3 /\ Len(codec.input.plant) = 1
  /\ Len(codec.input.vds) = 5 /\ codec.input.sequence = 1

\* C11: a batch that fails after k of its units were issued hands its caller
\* the k codes it had produced together with the error.  (What the services
\* throw is the error alone: the codes of the outcome are all the caller gets.)
C11_FailedBatchReportsItsCodes ==
  \A a \in Calls :
    LET o == Outcome(a[1], a[2])
    IN  (o.kind = "error" /\ o.op \in BatchOps /\ Issued(o) > 0) =>
          Len(o.vins) = Issued(o)

\* The outcomes caller c is handed by the step.
NewOutcomes(c) ==
  {outcomes'[c][n] : n \in (Len(outcomes[c]) + 1)..Len(outcomes'[c])}

\* The store getSequenceManager() selects in this environment.
SelectedStore == IF kvConfigured THEN "kv" ELSE GlobalManager

\* C12: when the Redis store is unavailable (no client, or the request
\* fails), getNextSequenceAsync and getCurrentSequenceAsync throw and return
\* no number; a batch whose allocation fails throws that error and is returned
\* no number; every number a batch is returned comes from the store the
\* environment selected, and with Redis selected the file store is never
\* touched.
C12_UnavailableStoreFailsTheCall ==
  [][/\ \A c \in KVCallers :
          /\ (~kvConfigured \/ kcall[c].pc = "reject") =>
               /\ returned'[c] = returned[c]
               /\ \A o \in NewOutcomes(c) : o.kind = "error"
          /\ (kcall[c].pc = "reject" /\ kcall'[c].pc = "idle") =>
               IF kcall[c].op = "incr"
               THEN kcall'[c].errors = kcall[c].errors + 1
               ELSE NewOutcomes(c) # {}
          /\ (~kvConfigured /\ kcall'[c] # kcall[c]) =>
               kcall'[c].errors = kcall[c].errors + 1
     /\ \A b \in Batches :
          /\ (batch[b].pc = "await" /\ batch[b].reply = << >>) =>
               /\ returned'[b] = returned[b]
               /\ \A o \in NewOutcomes(b) :
                    o.kind = "error" /\ o.err = "unavailable"
               /\ batch'[b].pc # "await" =>
                    (batch'[b].pc = "done" /\ NewOutcomes(b) # {})
          /\ \A n \in 1..Len(returned'[b]) :
               returned'[b][n].store = SelectedStore
     /\ kvConfigured => UNCHANGED fileVars
    ]_vars

\* With Redis selected, a getNextSequenceAsync and a getCurrentSequenceAsync of
\* caller k1 failed, and the batch threw after it had been allocated a number.
C12_CallsAndBatchFailed ==
  /\ kvConfigured
  /\ kcall["k1"].errors > 0
  /\ \E n \in 1..Len(outcomes["k1"]) : outcomes["k1"][n].kind = "error"
  /\ \E n \in 1..Len(outcomes["b1"]) :
       /\ outcomes["b1"][n].err = "unavailable"
       /\ outcomes["b1"][n].seqs # << >>
       /\ returned["b1"] # << >>

\* The callers of SpecStore: one of the file store, one of the Redis store.
StoreCallers == {GlobalManager, "k1"}

ReadOps == {"getCurrentSequence", "getCurrentSequenceAsync"}

ResetOps == {"resetSequence", "resetSequenceAsync"}

\* No request of caller c to its store has failed.
Clean(c) ==
  c \in KVCallers =>
    /\ kcall[c].errors = 0
    /\ \A n \in 1..Len(outcomes[c]) : outcomes[c][n].kind = "result"

\* The n-th read or reset of caller c was a reset of prefix p that succeeded.
IsReset(c, n, p) ==
  /\ outcomes[c][n].op \in ResetOps
  /\ outcomes[c][n].kind = "result"
  /\ outcomes[c][n].prefix = p

\* Caller c was returned its j-th number after its n-th read or reset.
After(c, n, j) == outcomes[c][n].seen < j

\* Between its n-th and its m-th read or reset (or up to now, for m = 0)
\* caller c neither reset prefix p nor was it allocated a number of p.
Untouched(c, n, m, p) ==
  LET last == IF m = 0 THEN Len(outcomes[c]) ELSE m - 1
      seen == IF m = 0 THEN Len(returned[c]) ELSE outcomes[c][m].seen
  IN  /\ \A k \in (n + 1)..last : ~IsReset(c, k, p)
      /\ \A j \in (outcomes[c][n].seen + 1)..seen : returned[c][j].prefix # p

\* The value reset o sets: its argument, 0 without one.
ResetTarget(o) == IF o.arg = << >> THEN 0 ELSE o.arg[1]

\* C13: after a reset of prefix p to v (to 0 when no value is passed), on
\* either store, the caller's next read of p returns v and its next allocation
\* of p returns v + 1, when no other reset or allocation of p came between and
\* no request of the caller failed.
C13_ResetThenReadAndAllocate ==
  \A c \in StoreCallers : \A p \in Prefixes : \A n \in 1..Len(outcomes[c]) :
    (Clean(c) /\ IsReset(c, n, p)) =>
      /\ \A m \in (n + 1)..Len(outcomes[c]) :
           (outcomes[c][m].op \in ReadOps /\ outcomes[c][m].prefix = p
            /\ Untouched(c, n, m, p))
           => outcomes[c][m].val = ResetTarget(outcomes[c][n])
      /\ \A j \in 1..Len(returned[c]) :
           (/\ After(c, n, j)
            /\ returned[c][j].prefix = p
            /\ \A i \in 1..(j - 1) : After(c, n, i) => returned[c][i].prefix # p
            /\ \A k \in (n + 1)..Len(outcomes[c]) :
                 IsReset(c, k, p) => ~After(c, k, j))
           => returned[c][j].val = ResetTarget(outcomes[c][n]) + 1

\* The caller of the selected store reset a prefix to 100, read 100 and was
\* then allocated 101.
C13_ResetTo100ThenRead100AndGot101 ==
  \E c \in StoreCallers : \E p \in Prefixes :
    /\ Len(outcomes[c]) = 2
    /\ IsReset(c, 1, p) /\ outcomes[c][1].arg = <<100>>
    /\ outcomes[c][2].op \in ReadOps /\ outcomes[c][2].prefix = p
    /\ outcomes[c][2].val = 100
    /\ \E j \in 1..Len(returned[c]) :
         After(c, 2, j) /\ returned[c][j].prefix = p /\ returned[c][j].val = 101

\* The m-th read or reset of caller c was a read of prefix p that succeeded.
IsRead(c, m, p) ==
  /\ outcomes[c][m].op \in ReadOps
  /\ outcomes[c][m].kind = "result"
  /\ outcomes[c][m].prefix = p

\* Caller c's j-th number was the latest change of prefix p's counter when its
\* m-th read or reset was made.
LatestIsAllocation(c, m, p, j) ==
  /\ ~After(c, m, j)
  /\ returned[c][j].prefix = p
  /\ \A i \in (j + 1)..outcomes[c][m].seen : returned[c][i].prefix # p
  /\ \A k \in 1..(m - 1) : IsReset(c, k, p) => After(c, k, j)

\* Caller c's n-th read or reset was a reset of p and the latest change of p's
\* counter when its m-th read or reset was made.
LatestIsReset(c, m, p, n) ==
  /\ n < m
  /\ IsReset(c, n, p)
  /\ Untouched(c, n, m, p)

\* Caller c had neither been allocated a number of p nor reset p when its
\* m-th read or reset was made.
NeverChanged(c, m, p) ==
  /\ \A j \in 1..outcomes[c][m].seen : returned[c][j].prefix # p
  /\ \A k \in 1..(m - 1) : ~IsReset(c, k, p)

\* C14: a read of prefix p returns the value the caller's latest allocation of
\* p returned or its latest reset of p set, whichever came last, and 0 for a
\* prefix that has no counter; it changes no counter, in memory or persisted,
\* and the allocation of p that follows reads returns the value read plus one
\* (on either store; on Redis while no request of the caller failed).
C14_ReadReturnsLatestAndChangesNothing ==
  \A c \in StoreCallers : \A p \in Prefixes : \A m \in 1..Len(outcomes[c]) :
    (Clean(c) /\ IsRead(c, m, p)) =>
      /\ ~outcomes[c][m].mutated
      /\ \A j \in 1..Len(returned[c]) :
           LatestIsAllocation(c, m, p, j) => outcomes[c][m].val = returned[c][j].val
      /\ \A n \in 1..(m - 1) :
           LatestIsReset(c, m, p, n)
           => outcomes[c][m].val = ResetTarget(outcomes[c][n])
      /\ (NeverChanged(c, m, p) /\ (c \in KVCallers \/ p \in FreshPrefixes))
           => outcomes[c][m].val = 0
      /\ \A j \in 1..Len(returned[c]) :
           (/\ After(c, m, j)
            /\ returned[c][j].prefix = p
            /\ \A i \in 1..(j - 1) : After(c, m, i) => returned[c][i].prefix # p
            /\ \A k \in (m + 1)..Len(outcomes[c]) :
                 IsReset(c, k, p) => ~After(c, k, j))
           => returned[c][j].val = outcomes[c][m].val + 1

\* The caller of the selected store was allocated a number of a prefix, read
\* the prefix twice and got that number, and was then allocated the next one.
C14_AllocatedReadTwiceAllocated ==
  \E c \in StoreCallers : \E p \in Prefixes :
    /\ Len(outcomes[c]) = 2 /\ Len(returned[c]) = 2
    /\ IsRead(c, 1, p) /\ IsRead(c, 2, p)
    /\ outcomes[c][1].seen = 1 /\ outcomes[c][2].seen = 1
    /\ returned[c][1].prefix = p /\ returned[c][2].prefix = p
    /\ outcomes[c][1].val = returned[c][1].val
    /\ outcomes[c][2].val = returned[c][1].val
    /\ returned[c][2].val = returned[c][1].val + 1

\* C15: the counter the file holds for a prefix never decreases and, once
\* created, is never removed: no call other than a reset takes the file from
\* one readable content to another that maps a prefix to less.
C15_StoredCountersNeverDecrease ==
  [][(file.st = "ok" /\ file'.st = "ok") =>
       \A p \in Prefixes : Persisted(file', p) >= Persisted(file, p)]_vars

\* C16: a batch of n units that succeeds, no other request having changed the
\* prefix's counter between its first and its last allocation, on a prefix
\* whose counter was c: it was allocated exactly n numbers, c+1, ..., c+n; its
\* n codes embed them in that order; startSequence is c+1 and endSequence is
\* c+n; and the counter is c+n after its last allocation.
C16_UndisturbedBatchTakesTheNextNumbers ==
  \A a \in Calls :
    LET o == Outcome(a[1], a[2])
    IN  (o.kind = "result" /\ o.op \in BatchOps /\ o.alone) =>
          /\ Len(o.seqs) = o.quantity
          /\ Len(o.vins) = o.quantity
          /\ \A i \in 1..o.quantity :
               /\ o.seqs[i] = o.before + i
               /\ Len(o.vins[i]) = 17
               /\ SubSeq(o.vins[i], 12, 17) = padStart(NumToString(o.before + i), 6)
          /\ o.startSequence = o.before + 1
          /\ o.endSequence = o.before + o.quantity
          /\ o.after = o.before + o.quantity

\* An undisturbed generateVINsAsync batch of two units took the numbers 2 and
\* 3 of a prefix whose counter was 1, next to a generateVINs batch of two
\* units.
C16_BatchOfTwoAfterOne ==
  /\ \E a \in Calls :
       LET o == Outcome(a[1], a[2])
       IN  /\ o.kind = "result" /\ o.op = "generateVINsAsync" /\ o.alone
           /\ o.quantity = 2 /\ o.before = 1
           /\ o.startSequence = 2 /\ o.endSequence = 3
  /\ \E a \in Calls :
       LET o == Outcome(a[1], a[2])
       IN  o.kind = "result" /\ o.op = "generateVINs" /\ o.quantity = 2

\* Caller c's i-th and j-th numbers are successive allocations of prefix p,
\* with no reset of p between them.
Successive(c, i, j, p) ==
  /\ i < j
  /\ returned[c][i].prefix = p /\ returned[c][j].prefix = p
  /\ \A k \in (i + 1)..(j - 1) : returned[c][k].prefix # p
  /\ \A n \in 1..Len(outcomes[c]) :
       IsReset(c, n, p) => (After(c, n, i) \/ ~After(c, n, j))

IsValidCode(vin) ==
  /\ validateVIN(vin).isValid
  /\ validateVIN(vin).errors = {}
  /\ calculateVINChecksum(vin).ok
  /\ calculateVINChecksum(vin).value = <<vin[9]>>

\* C18: every code generate returns, and every code of a result of
\* generateVINs, generateSingleVIN and generateVINsAsync, passes validation
\* and carries its checksum at position 9.
C18_EveryCodeIsValid ==
  /\ (codec.op = "generate" /\ codec.ok) => IsValidCode(codec.output)
  /\ \A a \in Calls :
       LET o == Outcome(a[1], a[2])
       IN  o.kind = "result" => \A i \in 1..Len(o.vins) : IsValidCode(o.vins[i])

\* C21: the backend selector returns the Redis store exactly when a REST URL
\* and a REST token are set (to a value) in the environment and the file store
\* otherwise, and the decision is made once per process: all the calls of
\* getSequenceManager and getSequenceManagerType of one process return the same
\* kind.
C21_SelectionIsMadeOnce ==
  /\ \A n \in 1..Len(selected) :
       selected[n].kind = "kv" <=> (selected[n].url /\ selected[n].token)
  /\ \A n, m \in 1..Len(selected) : selected[n].kind = selected[m].kind

\* The part of C21 that holds: each call decides from the environment as it
\* is when the call is made.
C21_KindFollowsTheEnvironment ==
  \A n \in 1..Len(selected) :
    /\ selected[n].kind \in {"kv", "file"}
    /\ selected[n].kind = "kv" <=> (selected[n].url /\ selected[n].token)

\* C22: the two stores are interchangeable behind the asynchronous interface:
\* handed the same sequence of getNextSequenceAsync, getCurrentSequenceAsync
\* and resetSequenceAsync calls by a single caller each, from empty stores,
\* the file store and the Redis store return the same value for every call and
\* hold the same prefix-to-counter mapping after each.
C22_StoresAreInterchangeable ==
  /\ Len(outcomes[GlobalManager]) = Len(outcomes[KVTwin])
  /\ \A n \in 1..Len(outcomes[GlobalManager]) :
       /\ outcomes[GlobalManager][n].op = outcomes[KVTwin][n].op
       /\ outcomes[GlobalManager][n].kind = outcomes[KVTwin][n].kind
       /\ outcomes[GlobalManager][n].val = outcomes[KVTwin][n].val
  /\ getAllSequences(MemOf(GlobalManager), file) = getAllSequencesAsync(redis)

\* Both stores were handed a reset of a prefix to 100, a read and an
\* allocation, and both returned 100 and 101; the other prefix has no counter.
C22_BothReset100Read100Got101 ==
  \E p \in Prefixes :
    /\ Len(outcomes[KVTwin]) = 3
    /\ \A c \in {GlobalManager, KVTwin} :
         /\ outcomes[c][1].op = "resetSequenceAsync"
         /\ outcomes[c][1].prefix = p /\ outcomes[c][1].arg = <<100>>
         /\ outcomes[c][2].op = "getCurrentSequenceAsync"
         /\ outcomes[c][2].prefix = p /\ outcomes[c][2].val = 100
         /\ outcomes[c][3].op = "getNextSequenceAsync"
         /\ outcomes[c][3].prefix = p /\ outcomes[c][3].val = 101
    /\ DOMAIN getAllSequencesAsync(redis) = {p}

\* A store instance just constructed.
NewStore == [sequences |-> EmptyMap, isLoaded |-> FALSE, failed |-> FALSE]

\* The step is an allocation or a reset of the global manager whose write
\* succeeds.
Saved ==
  \/ \E p \in Prefixes : GetNextSequence(GlobalManager, p, "ok")
  \/ \E p \in Prefixes, arg \in ResetValues : ResetSequence(GlobalManager, p, arg, "ok")

RECURSIVE SumOfCounters(_, _)
SumOfCounters(m, keys) ==
  IF keys = {} THEN 0
  ELSE LET k == CHOOSE k \in keys : \A j \in keys : m[k] >= m[j]
       IN  m[k] + SumOfCounters(m, keys \ {k})

\* C24: statistics() is a read-only aggregate over the prefixes that have a
\* counter: it changes no counter, totalPrefixes is the number of these
\* prefixes, totalVinsGenerated the sum of their counters and maxSequence the
\* largest of them, and every field is 0 when there is no such prefix.
C24_StatisticsAggregateTheCounters ==
  stats.kind = "result" =>
    /\ ~stats.mutated
    /\ stats.value.totalPrefixes = Cardinality(DOMAIN stats.counters)
    /\ stats.value.totalVinsGenerated
         = SumOfCounters(stats.counters, DOMAIN stats.counters)
    /\ \A p \in DOMAIN stats.counters :
         stats.counters[p] <= stats.value.maxSequence
    /\ DOMAIN stats.counters # {} =>
         \E p \in DOMAIN stats.counters :
           stats.counters[p] = stats.value.maxSequence
    /\ DOMAIN stats.counters = {} => stats.value = ZeroStats

\* The statistics of a store that holds a counter reset to 0 and one
\* allocated up to 1: two prefixes, one code, the largest counter 1.
C24_StatisticsOfTwoCounters ==
  /\ stats.kind = "result"
  /\ \E p, q \in Prefixes :
       /\ DOMAIN stats.counters = {p, q}
       /\ stats.counters[p] = 0 /\ stats.counters[q] = 1
  /\ stats.value.totalPrefixes = 2
  /\ stats.value.totalVinsGenerated = 1
  /\ stats.value.maxSequence = 1
  /\ stats.value.averageSequence = 50

\* Code vin has 17 characters, all of them letters or digits and none of them
\* the letter I, O or Q in either case.
WellFormedCode(vin) ==
  /\ Len(vin) = 17
  /\ \A i \in 1..17 :
       /\ vin[i] \in DOMAIN UpperOf \cup DOMAIN VIN_CHAR_VALUES \cup {"I", "O", "Q"}
       /\ vin[i] \notin {"I", "O", "Q", "i", "o", "q"}

\* What every call of validateVIN satisfies, whichever way the check
\* character is compared: the store is left alone, valid is reported exactly
\* when no error is, and a code that is not 17 long is invalid with
\* checksumValid null.
ValidationIsSelfContained ==
  /\ UNCHANGED storeVars
  /\ codec'.output.isValid <=> (codec'.output.errors = {})
  /\ Len(codec'.input) # 17 =>
       (~codec'.output.isValid /\ codec'.output.checksumValid = "null")

\* C25 as stated: validateVIN never changes any counter, reports valid exactly
\* when its error list is empty, finds a code whose length is not 17 invalid
\* with checksumValid null, and finds a 17-character alphanumeric code
\* without I/O/Q valid exactly when the character at position 9 equals the
\* computed checksum.
C25_ValidExactlyWhenCheckCharacterEqual ==
  [][(codec' # codec /\ codec'.op = "validateVIN") =>
       /\ ValidationIsSelfContained
       /\ WellFormedCode(codec'.input) =>
            (codec'.output.isValid
               <=> <<codec'.input[9]>> = RefChecksum(codec'.input))
    ]_vars

\* C25, amended: as above, the character at position 9 compared with the
\* computed checksum in its upper-case form, so that x stands for X.
C25_ValidExactlyWhenCheckCharacterMatches ==
  [][(codec' # codec /\ codec'.op = "validateVIN") =>
       /\ ValidationIsSelfContained
       /\ WellFormedCode(codec'.input) =>
            (codec'.output.isValid
               <=> <<IF codec'.input[9] \in DOMAIN UpperOf
                     THEN UpperOf[codec'.input[9]]
                     ELSE codec'.input[9]>> = RefChecksum(codec'.input))
    ]_vars

\* validateVIN has found valid a well-formed code whose check character is
\* written x.
C25_LowerCaseCheckCharacterAccepted ==
  /\ codec.op = "validateVIN"
  /\ WellFormedCode(codec.input)
  /\ codec.input[9] = "x"
  /\ codec.output.isValid
  /\ codec.output.checksumValid = "true"

\* The units batch b has attempted: those assembled, and the one whose number
\* it is waiting for or failed to get.
Attempted(b) ==
  batch[b].i + (IF batch[b].pc = "await" \/ (batch[b].pc = "done"
                                             /\ outcomes[b][1].kind = "error")
                THEN 1 ELSE 0)

\* The calls of the allocator never run ahead of the units: the calls of an
\* asynchronous batch are as many as the units it has attempted and a
\* completed one has made quantity calls; the numbers a synchronous batch
\* was allocated are as many as its units, the last of them being the only
\* one that can have failed in assembly.
OneCallPerUnit ==
  /\ \A b \in Batches :
       /\ batch[b].calls = Attempted(b)
       /\ batch[b].calls <= batch[b].req.quantity
       /\ Len(batch[b].vins) = batch[b].i
       /\ batch[b].landed \in {batch[b].calls - 1, batch[b].calls}
       /\ (batch[b].pc = "done" /\ outcomes[b][1].kind = "result") =>
            /\ batch[b].calls = batch[b].req.quantity
            /\ batch[b].landed = batch[b].calls
  /\ \A a \in Calls :
       LET o == Outcome(a[1], a[2])
       IN  (o.op = "generateVINs" /\ o.seqs # << >>) =>
             /\ Len(o.seqs) <= o.quantity
             /\ o.kind = "result" => Len(o.seqs) = o.quantity
             /\ \A j \in 1..(Len(o.seqs) - 1) : o.seqs[j] <= MaxSequence
             /\ o.after - o.before = Len(o.seqs)

\* Asynchronous batch b stopped at a unit: the call for its number failed.
Stopped(b) ==
  /\ batch[b].pc = "done"
  /\ outcomes[b][1].kind = "error"
  /\ batch[b].calls > 0

\* C26 as stated: the batch allocator calls allocateNext once per unit and
\* assembles the unit's code before it asks for the next number, so that its
\* calls never exceed the units assembled or attempted, and a batch that
\* stops at unit k has consumed exactly k numbers, not the requested range.
C26_StoppedBatchConsumedItsUnits ==
  /\ OneCallPerUnit
  /\ \A b \in Batches :
       Stopped(b) =>
         /\ batch[b].landed = batch[b].i + 1
         /\ batch[b].alone => batch[b].after - batch[b].before = batch[b].i + 1

\* C26, amended: as above, a batch that stops at unit k having made k calls
\* and consumed the numbers of those that reached the store: k, or k - 1
\* when the call of unit k was lost before it changed the counter.
C26_StoppedBatchConsumedItsCalls ==
  /\ OneCallPerUnit
  /\ \A b \in Batches :
       Stopped(b) =>
         /\ batch[b].calls = batch[b].i + 1
         /\ batch[b].landed = batch[b].calls - 1 => kvConfigured
         /\ batch[b].alone => batch[b].after - batch[b].before = batch[b].landed

\* A batch of two stopped at its second unit with one code assembled and one
\* number consumed, and a synchronous batch of two stopped at its first unit
\* with one number consumed.
C26_BatchesStoppedEarly ==
  /\ \E b \in Batches :
       /\ Stopped(b)
       /\ batch[b].req.quantity = 2
       /\ batch[b].i = 1 /\ batch[b].calls = 2 /\ batch[b].landed = 1
       /\ batch[b].alone
  /\ \E a \in Calls :
       /\ Outcome(a[1], a[2]).op = "generateVINs"
       /\ Outcome(a[1], a[2]).kind = "error"
       /\ Outcome(a[1], a[2]).quantity = 2
       /\ Len(Outcome(a[1], a[2]).seqs) = 1

\* C27: the store instances of one process that share the counter file never
\* return the same number for a prefix, and none of their writes takes the
\* file to a lower counter, however their allocations are interleaved.
C27_LocalInstancesNeverCollide ==
  [][/\ \A i, j \in Inst :
          \A n \in 1..Len(returned'[i]) : \A m \in 1..Len(returned'[j]) :
            (<<i, n>> # <<j, m>>
             /\ returned'[i][n].prefix = returned'[j][m].prefix)
            => returned'[i][n].val # returned'[j][m].val
     /\ (file.st = "ok" /\ file'.st = "ok") =>
          \A p \in Prefixes : Persisted(file', p) >= Persisted(file, p)
    ]_vars

\* The part of code vin that identifies its counter: the manufacturer id and
\* the descriptor, then the year code and the plant code.
IdentifyingPart(vin) == SubSeq(vin, 1, 8) \o SubSeq(vin, 10, 11)

\* C28: the counter key of an allocation is the identifying part of the code
\* built from it: for every code a generateVINs, generateSingleVIN or
\* generateVINsAsync call returns, the prefix handed to the store is
\* characters 1-8 followed by characters 10-11 of the code.
C28_KeyIsTheIdentifyingPart ==
  [][\A c \in Callers :
       (/\ Len(outcomes'[c]) = Len(outcomes[c]) + 1
        /\ outcomes'[c][Len(outcomes'[c])].op
             \in {"generateVINs", "generateSingleVIN", "generateVINsAsync"}
        /\ outcomes'[c][Len(outcomes'[c])].kind = "result")
       => LET o == outcomes'[c][Len(outcomes'[c])]
              first == Len(returned'[c]) - Len(o.vins)
          IN  \A k \in 1..Len(o.vins) :
                returned'[c][first + k].prefix = IdentifyingPart(o.vins[k])
    ]_vars

\* The counter of prefix q as a caller of instance j finds it before and
\* after the step.
ViewBefore(j, q) == Get(loadSync(MemOf(j), file).sequences, q)

ViewAfter(j, q) ==
  Get(loadSync([sequences |-> sequences'[j], isLoaded |-> isLoaded'[j],
                failed |-> loadFailed'[j]], file').sequences, q)

\* C29: an allocation or a reset of prefix p changes the counter of p alone:
\* for every other prefix q the counter in memory (and with it the value the
\* next allocation of q returns) and the counter persisted, in the file or in
\* Redis, are what they were.
C29_OperationsArePerKey ==
  [][\A p \in Prefixes :
       (\/ \E i \in Inst, w \in WriteOutcomes : GetNextSequence(i, p, w)
        \/ \E i \in Inst, arg \in ResetValues, w \in WriteOutcomes :
             ResetSequence(i, p, arg, w)
        \/ \E c \in KVCallers, o \in RedisOutcomes : KVGetNextSequenceAsync(c, p, o)
        \/ \E c \in KVCallers, arg \in ResetValues, o \in RedisOutcomes :
             KVResetSequenceAsync(c, p, arg, o))
       => \A q \in Prefixes \ {p} :
            /\ \A j \in Inst : ViewAfter(j, q) = ViewBefore(j, q)
            /\ (file.st = "ok" /\ file'.st = "ok")
                 => Persisted(file', q) = Persisted(file, q)
            /\ Get(redis', KVKey(q)) = Get(redis, KVKey(q))
    ]_vars

====
